---- MODULE Spec2Model ----
(***************************************************************************)
(* Model of the vChain verifiable query engine (hkbudb/vchain-demo):       *)
(* block construction (intra-index, skip list), the historical query       *)
(* processor that emits a verification object (VO), and the light-client   *)
(* verifier.                                                               *)
(*                                                                         *)
(* Cryptography is modelled symbolically.  A digest is the term that was   *)
(* hashed (hashes are collision free), and an accumulator value is the     *)
(* multiset it commits to (accumulators are binding).  A disjointness      *)
(* proof is a term that verifies only against the accumulators of the two  *)
(* sets it was generated for, and only if those sets are disjoint.         *)
(***************************************************************************)
EXTENDS Integers, Sequences, FiniteSets, TLC

VARIABLES
    chain,      \* the store: param, block_headers, block_data, intra_index_nodes, skip_list_nodes, objects
    id_cnt,     \* the process-wide id counters OBJECT_ID_CNT, INTRA_INDEX_ID_CNT, SKIP_LIST_ID_CNT
    build_ret,  \* what the last build_block call returned
    res,        \* the OverallResult held by the client (or the failure of historical_query)
    verdict,    \* what OverallResult::verify returned for res
    adv,        \* what the service provider changed in res before presenting it
    io_failed,  \* whether a storage read failed during the last build_block call
    fn_in,      \* input of a pure function under check
    fn_out      \* its output

vars == <<chain, id_cnt, build_ret, res, verdict, adv, io_failed, fn_in, fn_out>>

(***************************************************************************)
(* Bounds of the model                                                     *)
(***************************************************************************)
MaxBitLen == 3
MaxBlocks == 5
MaxSkipLevel == 1
MaxObjs == 4
MaxExp == 2
MaxCount == 2
MaxDigests == 2
MaxCalls == 3

(***************************************************************************)
(* Generic helpers                                                         *)
(***************************************************************************)
NoValue == <<"none">>

\* the sequence f, and the map f, with every element computed
SeqOf(f) == f \o <<>>

MapOf(f) == f @@ <<>>

SetMin(S) == CHOOSE x \in S : \A y \in S : x <= y

SetMax(S) == CHOOSE x \in S : \A y \in S : y <= x

RemoveAt(s, i) == SeqOf([j \in 1..(Len(s) - 1) |-> IF j < i THEN s[j] ELSE s[j + 1]])

Reverse(s) == SeqOf([j \in 1..Len(s) |-> s[Len(s) + 1 - j]])

Pow2(n) == 2 ^ n

(***************************************************************************)
(* u32 words as 32 bits, most significant first (TLC integers are signed   *)
(* 32-bit, so 0xffff_ffff is not an integer of the model)                  *)
(***************************************************************************)
WordBits == 32

BitIdx == 1..WordBits

\* the word whose i-th bit is F(i)
Word(F(_)) ==
    << F(1), F(2), F(3), F(4), F(5), F(6), F(7), F(8),
       F(9), F(10), F(11), F(12), F(13), F(14), F(15), F(16),
       F(17), F(18), F(19), F(20), F(21), F(22), F(23), F(24),
       F(25), F(26), F(27), F(28), F(29), F(30), F(31), F(32) >>

\* the word of a value below 2^31
ToBits(n) == Word(LAMBDA i : IF i = 1 THEN 0 ELSE (n \div Pow2(WordBits - i)) % 2)

\* the value of a word whose top bit is clear
FromBits(b) ==
      (b[2] * Pow2(30) + b[3] * Pow2(29) + b[4] * Pow2(28) + b[5] * Pow2(27)
        + b[6] * Pow2(26) + b[7] * Pow2(25) + b[8] * Pow2(24))
    + (b[9] * Pow2(23) + b[10] * Pow2(22) + b[11] * Pow2(21) + b[12] * Pow2(20)
        + b[13] * Pow2(19) + b[14] * Pow2(18) + b[15] * Pow2(17) + b[16] * Pow2(16))
    + (b[17] * Pow2(15) + b[18] * Pow2(14) + b[19] * Pow2(13) + b[20] * Pow2(12)
        + b[21] * Pow2(11) + b[22] * Pow2(10) + b[23] * Pow2(9) + b[24] * Pow2(8))
    + (b[25] * Pow2(7) + b[26] * Pow2(6) + b[27] * Pow2(5) + b[28] * Pow2(4)
        + b[29] * Pow2(3) + b[30] * Pow2(2) + b[31] * Pow2(1) + b[32])

AllOnes == Word(LAMBDA i : 1)

BitNot(a) == Word(LAMBDA i : 1 - a[i])

BitAnd(a, b) == Word(LAMBDA i : a[i] * b[i])

BitOr(a, b) == Word(LAMBDA i : IF a[i] + b[i] > 0 THEN 1 ELSE 0)

\* a << j for j < 32
Shl(a, j) == Word(LAMBDA i : IF i + j <= WordBits THEN a[i + j] ELSE 0)

\* a >> 1
Shr1(a) == Word(LAMBDA i : IF i = 1 THEN 0 ELSE a[i - 1])

\* unsigned a <= b: a is not the larger one at the first bit where they differ
BitsLeq(a, b) ==
    ~\E i \in BitIdx : a[i] > b[i] /\ \A j \in 1..(i - 1) : a[j] = b[j]

BitsLt(a, b) == a # b /\ BitsLeq(a, b)

(***************************************************************************)
(* MultiSet (set.rs): a map element -> count                               *)
(***************************************************************************)
EmptySet == MapOf([e \in {} |-> 0])

Keys(A) == DOMAIN A

\* HashMap::len through Deref
SetLen(A) == Cardinality(DOMAIN A)

\* MultiSet::from_iter over distinct elements
FromKeys(S) == MapOf([e \in S |-> 1])

is_intersected_with_never(A, B) == FALSE

is_intersected_with(A, B) == (DOMAIN A) \cap (DOMAIN B) # {}

SetAdd(A, B) ==
    MapOf([e \in (DOMAIN A) \cup (DOMAIN B) |->
        (IF e \in DOMAIN A THEN A[e] ELSE 0) + (IF e \in DOMAIN B THEN B[e] ELSE 0)])

SetUnion_dropB(A, B) == A

SetUnion(A, B) == MapOf([e \in (DOMAIN A) \cup (DOMAIN B) |-> 1])

SetInter(A, B) == MapOf([e \in (DOMAIN A) \cap (DOMAIN B) |-> 1])

(***************************************************************************)
(* SetElementType (object.rs)                                              *)
(***************************************************************************)
V(dim, val, mask) == [k |-> "V", dim |-> dim, val |-> val, mask |-> mask, w |-> ""]

W(s) == [k |-> "W", dim |-> 0, val |-> 0, mask |-> 0, w |-> s]

\* the elements of one dimension: dimension i is the i-th entry, dim is zero-based
VDim(i, v, n) ==
    LET m == BitNot(Shl(AllOnes, n))
    IN  { V(i - 1,
            FromBits(BitAnd(ToBits(v), BitAnd(Shl(AllOnes, j), m))),
            FromBits(BitAnd(Shl(AllOnes, j), m))) : j \in 0..(n - 1) }

v_data_to_set(input, bit_len) ==
    FromKeys(UNION { VDim(i, input[i], bit_len[i]) : i \in 1..Len(input) })

(***************************************************************************)
(* Range::to_bool_exp (query.rs): breadth-first walk of the prefix tree    *)
(***************************************************************************)
None == -1

\* the queue entry (mask, left) is emitted when l <= left && right <= r
RangeHit(e, l, r) == BitsLeq(l, e[2]) /\ BitsLeq(BitOr(e[2], BitNot(e[1])), r)

\* it is dropped when right < l || r < left
RangeMiss(e, l, r) == BitsLt(BitOr(e[2], BitNot(e[1])), l) \/ BitsLt(r, e[2])

\* the element inserted for an emitted entry
RangeElem(e, i, n) ==
    LET m == IF n < 32 THEN BitAnd(e[1], BitNot(Shl(AllOnes, n))) ELSE e[1]
    IN  V(i - 1, FromBits(e[2]), FromBits(m))

\* the two entries pushed for an entry that is split
RangeSplit(e) ==
    LET mask_inv == BitNot(e[1])
        new_mask == BitNot(Shr1(mask_inv))
    IN  << <<new_mask, e[2]>>, <<new_mask, BitOr(e[2], BitAnd(new_mask, mask_inv))>> >>

RECURSIVE Flatten(_)
Flatten(ss) == IF ss = <<>> THEN <<>> ELSE Head(ss) \o Flatten(Tail(ss))

\* while let Some((mask, left)) = queue.pop_front(): the queue holds the entries of one
\* mask length followed by those they push, so the walk is taken one mask length at a
\* time; the result is the set of elements inserted into set_data
RECURSIVE RangeWalk(_, _, _, _, _)
RangeWalk(queue, l, r, i, n) ==
    IF queue = <<>> THEN {}
    ELSE
        LET hits == {RangeElem(queue[k], i, n) : k \in {j \in DOMAIN queue : RangeHit(queue[j], l, r)}}
            split == SelectSeq(queue, LAMBDA e : ~RangeHit(e, l, r) /\ ~RangeMiss(e, l, r))
            pushed == Flatten(SeqOf([k \in DOMAIN split |-> RangeSplit(split[k])]))
        IN  hits \cup RangeWalk(pushed, l, r, i, n)

RangeDim(lo, hi, i, n) ==
    FromKeys(RangeWalk(<< <<ToBits(0), ToBits(0)>> >>, ToBits(lo), ToBits(hi), i, n))

RECURSIVE RangeExp(_, _, _)
RangeExp(range, bit_len, i) ==
    IF i > Len(range[1]) \/ i > Len(range[2]) THEN <<>>
    ELSE IF range[1][i] = None \/ range[2][i] = None
         THEN RangeExp(range, bit_len, i + 1)
         ELSE <<RangeDim(range[1][i], range[2][i], i, bit_len[i])>>
                  \o RangeExp(range, bit_len, i + 1)

Range_to_bool_exp(range, bit_len) == RangeExp(range, bit_len, 1)

\* Parameter.v_bit_len of the modelled chains: one dimension of two bits
ChainBitLen == <<2>>

\* the q_range values of the modelled queries
ChainRanges == { << <<1>>, <<1>> >>, << <<0>>, <<3>> >>, << <<2>>, <<3>> >> }

\* Range::to_bool_exp of these ranges, computed once
RangeTable == MapOf([range \in ChainRanges |-> Range_to_bool_exp(range, ChainBitLen)])

RangeExpOf(range, bit_len) ==
    IF bit_len = ChainBitLen /\ range \in DOMAIN RangeTable
    THEN RangeTable[range]
    ELSE Range_to_bool_exp(range, bit_len)

(***************************************************************************)
(* BoolExp (query.rs)                                                      *)
(***************************************************************************)
mismatch_idx_last(exp, set) ==
    LET bad == {j \in 1..Len(exp) : ~is_intersected_with(exp[j], set)}
    IN  IF bad = {} THEN None ELSE SetMax(bad) - 1

\* zero-based index of the first set of exp that does not intersect set, or None
mismatch_idx(exp, set) ==
    LET bad == {j \in 1..Len(exp) : ~is_intersected_with(exp[j], set)}
    IN  IF bad = {} THEN None ELSE SetMin(bad) - 1

is_match(exp, set) == mismatch_idx(exp, set) = None

(***************************************************************************)
(* Digests (digest.rs).  A digest is the term that was hashed.             *)
(***************************************************************************)
\* Digest::default()
ZeroDigest == <<"zero">>

\* concat_digest / concat_digest_ref: blake2 over the digests in order
concat_digest(ds) == <<"cat", ds>>

\* Digestible for G1Affine: hash of the serialized point
G1_to_digest(acc) == <<"g1", acc>>

\* Digestible for Object: id, block_id, v_data and the sorted w_data; not set_data, not acc_value
Object_to_digest(o) == <<"obj", o.id, o.block_id, o.v_data, o.w_data>>

\* Digestable for BlockHeader
BlockHeader_to_digest(h) == <<"hdr", h.block_id, h.prev_hash, h.data_root, h.skip_list_root>>

(***************************************************************************)
(* Accumulators (acc/mod.rs), symbolically: the committed multiset         *)
(***************************************************************************)
AccTypes == {"ACC1", "ACC2"}

\* multiset_to_g1: the sk and pk paths give the same group element
multiset_to_g1(set, param) == [t |-> param.acc_type, set |-> set]

\* Acc1::cal_acc_g1 (ACC1) and Acc2::cal_acc_g2 (ACC2) of a query set
query_acc(set, t) == [t |-> t, set |-> set]

\* add_assign_mixed on ACC2 values: g^x * g^y
G1Add(a, b) == [t |-> a.t, set |-> SetAdd(a.set, b.set)]

\* G1Projective::zero()
G1Zero == [t |-> "ACC2", set |-> EmptySet]

\* the exponent of an ACC2 proof: the product set {(Q + a - b, p * q)}
Product(A, B) ==
    MapOf([pr \in (DOMAIN A) \X (DOMAIN B) |-> A[pr[1]] * B[pr[2]]])

gen_proof_swapped(t, set1, set2) ==
    IF is_intersected_with(set1, set2) THEN [ok |-> FALSE, proof |-> NoValue]
    ELSE IF t = "ACC1"
         THEN [ok |-> TRUE, proof |-> [t |-> "ACC1", a |-> set2, b |-> set1, f |-> EmptySet]]
         ELSE [ok |-> TRUE,
               proof |-> [t |-> "ACC2", a |-> EmptySet, b |-> EmptySet, f |-> Product(set2, set1)]]

\* AccumulatorProof::gen_proof(set1, set2): fails when the sets share an element
gen_proof(t, set1, set2) ==
    IF is_intersected_with(set1, set2) THEN [ok |-> FALSE, proof |-> NoValue]
    ELSE IF t = "ACC1"
         THEN [ok |-> TRUE, proof |-> [t |-> "ACC1", a |-> set1, b |-> set2, f |-> EmptySet]]
         ELSE [ok |-> TRUE,
               proof |-> [t |-> "ACC2", a |-> EmptySet, b |-> EmptySet, f |-> Product(set1, set2)]]

combine_proof_keep(p, other) == p

\* Acc2Proof::combine_proof: the sum of the two points
combine_proof(p, other) == [p EXCEPT !.f = SetAdd(p.f, other.f)]

\* Acc1Proof::verify: e(acc1, f1) * e(acc2, f2) = e(g1, g2)
Acc1Proof_verify(p, acc1, acc2) ==
    /\ ~is_intersected_with(p.a, p.b)
    /\ acc1 = [t |-> "ACC1", set |-> p.a]
    /\ acc2 = [t |-> "ACC1", set |-> p.b]

\* Acc2Proof::verify: e(acc1, acc2) = e(f, g2)
Acc2Proof_verify(p, acc1, acc2) ==
    /\ acc1.t = "ACC2"
    /\ acc2.t = "ACC2"
    /\ \A pr \in DOMAIN p.f : pr[1] # pr[2]
    /\ p.f = Product(acc1.set, acc2.set)

(***************************************************************************)
(* Records of the chain (object.rs, index.rs)                              *)
(***************************************************************************)
Put(f, k, v) == (k :> v) @@ f

\* the Object that Object::create returns once set_data is computed
Object_new(raw, id, set_data, param) ==
    [id |-> id, block_id |-> raw.block_id, v_data |-> raw.v_data, w_data |-> raw.w_data,
     set_data |-> set_data, acc_value |-> multiset_to_g1(set_data, param)]

\* Object::create with the id drawn from OBJECT_ID_CNT
Object_create(raw, param, id) ==
    Object_new(raw, id,
               SetAdd(v_data_to_set(raw.v_data, param.v_bit_len),
                      FromKeys({W(s) : s \in raw.w_data})),
               param)

IntraIndexLeaf_create(id, block_id, set_data, acc_value, obj_id, obj_hash) ==
    [kind |-> "Leaf", id |-> id, block_id |-> block_id, set_data |-> set_data,
     acc_value |-> acc_value, obj_id |-> obj_id, obj_hash |-> obj_hash,
     child_hash_digest |-> NoValue, child_hashes |-> <<>>, child_ids |-> <<>>]

IntraIndexNonLeaf_create(id, block_id, set_data, acc_value, child_hashes, child_ids) ==
    [kind |-> "NonLeaf", id |-> id, block_id |-> block_id, set_data |-> set_data,
     acc_value |-> acc_value, obj_id |-> None, obj_hash |-> NoValue,
     child_hash_digest |-> concat_digest(child_hashes), child_hashes |-> child_hashes,
     child_ids |-> child_ids]

\* Digestable for IntraIndexLeaf and IntraIndexNonLeaf
IntraIndexNode_to_digest(n) ==
    IF n.kind = "Leaf"
    THEN concat_digest(<<G1_to_digest(n.acc_value), n.obj_hash>>)
    ELSE concat_digest(<<G1_to_digest(n.acc_value), n.child_hash_digest>>)

SkipListNode_create(id, block_id, level, set_data, acc_value, pre_skipped_hash) ==
    [id |-> id, block_id |-> block_id, level |-> level, set_data |-> set_data,
     acc_value |-> acc_value, pre_skipped_hash |-> pre_skipped_hash,
     digest |-> concat_digest(<<G1_to_digest(acc_value), pre_skipped_hash>>)]

skipped_blocks_num_half(level) == Pow2(level + 1)

\* skipped_blocks_num (utils.rs)
skipped_blocks_num(level) == Pow2(level + 2)

(***************************************************************************)
(* ReadInterface of the store; a read of fault.hdr / fault.data fails      *)
(***************************************************************************)
NoFault == [hdr |-> {}, data |-> {}]

read_block_header_ok(c, id, fault) == id \in DOMAIN c.block_headers /\ id \notin fault.hdr

read_block_data_ok(c, id, fault) == id \in DOMAIN c.block_data /\ id \notin fault.data

(***************************************************************************)
(* build_block (build.rs)                                                  *)
(***************************************************************************)
MaxByKeyIdx_first(nodes) ==
    LET m == SetMax({SetLen(nodes[i].set_data) : i \in 1..Len(nodes)})
    IN  SetMin({i \in 1..Len(nodes) : SetLen(nodes[i].set_data) = m})

\* iter().enumerate().max_by_key(|n| n.set_data.len()): of several maxima, the last
MaxByKeyIdx(nodes) ==
    LET m == SetMax({SetLen(nodes[i].set_data) : i \in 1..Len(nodes)})
    IN  SetMax({i \in 1..Len(nodes) : SetLen(nodes[i].set_data) = m})

\* |a & b| / |a | b| as numerator and denominator
Sim(a, b) == <<SetLen(SetInter(a, b)), SetLen(SetUnion(a, b))>>

\* x > y on the f64 quotients; 0/0 is NaN and every comparison with it is false
FGreater(x, y) == x[2] # 0 /\ y[2] # 0 /\ x[1] * y[2] > y[1] * x[2]

RECURSIVE SimScan(_, _, _, _, _)
SimScan(left, rest, i, right_idx, max_sim) ==
    IF i > Len(rest) THEN right_idx
    ELSE LET sim == Sim(left.set_data, rest[i].set_data)
         IN  IF FGreater(sim, max_sim)
             THEN SimScan(left, rest, i + 1, i, sim)
             ELSE SimScan(left, rest, i + 1, right_idx, max_sim)

\* the index of the node most similar to left: the first of the maxima
RightIdx(left, rest) == SimScan(left, rest, 2, 1, Sim(left.set_data, rest[1].set_data))

PairNode_left(id, block_id, left, right, param) ==
    IntraIndexNonLeaf_create(id, block_id, left.set_data, left.acc_value,
        <<IntraIndexNode_to_digest(left), IntraIndexNode_to_digest(right)>>,
        <<left.id, right.id>>)

PairNode(id, block_id, left, right, param) ==
    LET min_set == SetUnion(left.set_data, right.set_data)
    IN  IntraIndexNonLeaf_create(id, block_id, min_set, multiset_to_g1(min_set, param),
            <<IntraIndexNode_to_digest(left), IntraIndexNode_to_digest(right)>>,
            <<left.id, right.id>>)

\* every record of recs[1..k] written to the map under its id
RECURSIVE PutAll(_, _, _)
PutAll(m, recs, k) == IF k = 0 THEN m ELSE Put(PutAll(m, recs, k - 1), recs[k].id, recs[k])

\* node is pushed on the list, written to the store, and its id consumed;
\* st = [non_leaves, nodes, cnt] with the intra_index_nodes map and the id counter
Written(st, node) ==
    [non_leaves |-> Append(st.non_leaves, node), nodes |-> Put(st.nodes, node.id, node),
     cnt |-> st.cnt + 1]

\* while !leaves.is_empty(): pair the leaves
RECURSIVE ClusterLeaves(_, _, _, _)
\* left and the leaf at right_idx get a common parent
ClusterLeavesPair(left, rest, right_idx, st, block_id, param) ==
    ClusterLeaves(RemoveAt(rest, right_idx),
                  Written(st, PairNode(st.cnt, block_id, left, rest[right_idx], param)),
                  block_id, param)

\* left is removed from the leaves; if it was the last one it gets a parent of its own
\* and the loop ends
ClusterLeavesLeft(left, rest, st, block_id, param) ==
    IF rest = <<>>
    THEN Written(st, IntraIndexNonLeaf_create(st.cnt, block_id, left.set_data, left.acc_value,
                         <<IntraIndexNode_to_digest(left)>>, <<left.id>>))
    ELSE ClusterLeavesPair(left, rest, RightIdx(left, rest), st, block_id, param)

ClusterLeaves(leaves, st, block_id, param) ==
    IF leaves = <<>> THEN st
    ELSE ClusterLeavesLeft(leaves[MaxByKeyIdx(leaves)], RemoveAt(leaves, MaxByKeyIdx(leaves)),
                           st, block_id, param)

\* the inner while non_leaves.len() > 1, then non_leaves.append(&mut new_non_leaves);
\* st.non_leaves is new_non_leaves
RECURSIVE ClusterLevel(_, _, _, _)
ClusterLevelPair(left, rest, right_idx, st, block_id, param) ==
    ClusterLevel(RemoveAt(rest, right_idx),
                 Written(st, PairNode(st.cnt, block_id, left, rest[right_idx], param)),
                 block_id, param)

ClusterLevel(non_leaves, st, block_id, param) ==
    IF Len(non_leaves) <= 1 THEN [st EXCEPT !.non_leaves = non_leaves \o @]
    ELSE ClusterLevelPair(non_leaves[MaxByKeyIdx(non_leaves)],
                          RemoveAt(non_leaves, MaxByKeyIdx(non_leaves)),
                          RightIdx(non_leaves[MaxByKeyIdx(non_leaves)],
                                   RemoveAt(non_leaves, MaxByKeyIdx(non_leaves))),
                          st, block_id, param)

\* the outer while non_leaves.len() > 1
RECURSIVE ClusterLevels(_, _, _)
ClusterLevels(st, block_id, param) ==
    IF Len(st.non_leaves) <= 1 THEN st
    ELSE ClusterLevels(ClusterLevel(st.non_leaves, [st EXCEPT !.non_leaves = <<>>],
                                    block_id, param),
                       block_id, param)

\* the empty non-leaf is written for a block without objects; the root is the last non-leaf
IntraRoot(st, block_id, param) ==
    IF st.non_leaves = <<>>
    THEN [root |-> IntraIndexNonLeaf_create(st.cnt, block_id, EmptySet,
                       multiset_to_g1(EmptySet, param), <<>>, <<>>),
          nodes |-> Put(st.nodes, st.cnt,
                        IntraIndexNonLeaf_create(st.cnt, block_id, EmptySet,
                            multiset_to_g1(EmptySet, param), <<>>, <<>>)),
          cnt |-> st.cnt + 1]
    ELSE [root |-> st.non_leaves[Len(st.non_leaves)], nodes |-> st.nodes, cnt |-> st.cnt]

\* the leaves are written, then clustered level by level
IntraCluster(leaves, nodes, cnt, block_id, param) ==
    IntraRoot(
        ClusterLevels(
            ClusterLeaves(leaves,
                          [non_leaves |-> <<>>, nodes |-> PutAll(nodes, leaves, Len(leaves)),
                           cnt |-> cnt + Len(leaves)],
                          block_id, param),
            block_id, param),
        block_id, param)

\* the intra-index branch of build_block: the root, the store of nodes and the counter
BuildIntraIndex(block_id, objs, nodes, cnt, param) ==
    IntraCluster(SeqOf([k \in 1..Len(objs) |->
                           IntraIndexLeaf_create(cnt + k - 1, block_id, objs[k].set_data,
                               objs[k].acc_value, objs[k].id, Object_to_digest(objs[k]))]),
                 nodes, cnt, block_id, param)

RECURSIVE UnionOfObjs(_, _)
UnionOfObjs(objs, k) ==
    IF k = 0 THEN EmptySet ELSE SetUnion(UnionOfObjs(objs, k - 1), objs[k].set_data)

\* the while skipped_blk_num < blk_num of one skip-list level; c is the store being read
RECURSIVE SkipWalk(_, _, _, _, _)
SkipWalk_own_hash(s, blk_num, c, param, fault) ==
    IF s.skipped_blk_num >= blk_num THEN s
    ELSE IF s.prev_blk_id = 0 THEN [s EXCEPT !.status = "break"]
    ELSE IF ~read_block_header_ok(c, s.prev_blk_id, fault)
    THEN [s EXCEPT !.status = "break", !.read_failed = TRUE]
    ELSE IF ~read_block_data_ok(c, s.prev_blk_id, fault)
    THEN [s EXCEPT !.status = "err", !.read_failed = TRUE]
    ELSE SkipWalk([s EXCEPT
                     !.hash_to_skip = BlockHeader_to_digest(c.block_headers[s.prev_blk_id]),
                     !.set_data_to_skip =
                         IF param.acc_type = "ACC1"
                         THEN SetUnion(@, c.block_data[s.prev_blk_id].set_data)
                         ELSE SetAdd(@, c.block_data[s.prev_blk_id].set_data),
                     !.acc_value_to_skip =
                         IF param.acc_type = "ACC1" THEN @
                         ELSE G1Add(@, c.block_data[s.prev_blk_id].acc_value),
                     !.skipped_blk_num = @ + 1,
                     !.prev_blk_id = @ - 1],
                  blk_num, c, param, fault)

SkipWalk(s, blk_num, c, param, fault) ==
    IF s.skipped_blk_num >= blk_num THEN s
    ELSE IF s.prev_blk_id = 0 THEN [s EXCEPT !.status = "break"]
    ELSE IF ~read_block_header_ok(c, s.prev_blk_id, fault)
    THEN [s EXCEPT !.status = "break", !.read_failed = TRUE]
    ELSE IF ~read_block_data_ok(c, s.prev_blk_id, fault)
    THEN [s EXCEPT !.status = "err", !.read_failed = TRUE]
    ELSE SkipWalk([s EXCEPT
                     !.hash_to_skip = c.block_headers[s.prev_blk_id].prev_hash,
                     !.set_data_to_skip =
                         IF param.acc_type = "ACC1"
                         THEN SetUnion(@, c.block_data[s.prev_blk_id].set_data)
                         ELSE SetAdd(@, c.block_data[s.prev_blk_id].set_data),
                     !.acc_value_to_skip =
                         IF param.acc_type = "ACC1" THEN @
                         ELSE G1Add(@, c.block_data[s.prev_blk_id].acc_value),
                     !.skipped_blk_num = @ + 1,
                     !.prev_blk_id = @ - 1],
                  blk_num, c, param, fault)

\* the skip-list node of a level is written and recorded for the header
SkipWritten(s, skip_node) ==
    [s EXCEPT !.skip_list_ids = Append(@, skip_node.id),
              !.skip_list_digests = Append(@, skip_node.digest),
              !.nodes = Put(@, skip_node.id, skip_node),
              !.cnt = @ + 1]

\* 'outer: for level in 0..param.skip_list_max_level
RECURSIVE SkipLevels(_, _, _, _, _, _)
\* the rest of the body of the loop, after the while of the level
SkipLevelNode(level, s, c, block_id, param, fault) ==
    IF s.status # "run" THEN s
    ELSE SkipLevels(level + 1,
             SkipWritten(s, SkipListNode_create(s.cnt, block_id, level, s.set_data_to_skip,
                                IF param.acc_type = "ACC1"
                                THEN multiset_to_g1(s.set_data_to_skip, param)
                                ELSE s.acc_value_to_skip,
                                s.hash_to_skip)),
             c, block_id, param, fault)

SkipLevels(level, s, c, block_id, param, fault) ==
    IF level >= param.skip_list_max_level THEN s
    ELSE SkipLevelNode(level, SkipWalk(s, skipped_blocks_num(level), c, param, fault),
                       c, block_id, param, fault)

\* the variables of the skip-list part of build_block before its loop
SkipStart(block_id, block_data, c, cnt) ==
    [prev_blk_id |-> block_id - 1, skipped_blk_num |-> 1,
     set_data_to_skip |-> block_data.set_data,
     acc_value_to_skip |-> block_data.acc_value,
     skip_list_ids |-> <<>>, skip_list_digests |-> <<>>,
     hash_to_skip |-> ZeroDigest,
     nodes |-> c.skip_list_nodes, cnt |-> cnt.skip, status |-> "run",
     read_failed |-> FALSE]

\* if param.skip_list_max_level > 0 && block_id >= 1 { .. }
BuildSkipList(block_id, block_data, c, cnt, fault) ==
    IF c.param.skip_list_max_level > 0 /\ block_id >= 1
    THEN SkipLevels(0, SkipStart(block_id, block_data, c, cnt), c, block_id, c.param, fault)
    ELSE SkipStart(block_id, block_data, c, cnt)

\* the end of build_block: a failed read of block data has returned the error, with the
\* objects and nodes written so far; otherwise the header and the data are written
build_block_end(s, block_header, block_data, c1, cnt1) ==
    IF s.status = "err"
    THEN [chain |-> c1, id_cnt |-> cnt1, ret |-> "Err", header |-> NoValue,
          read_failed |-> s.read_failed]
    ELSE [chain |-> [c1 EXCEPT !.block_headers = Put(@, block_header.block_id, block_header),
                               !.block_data = Put(@, block_header.block_id, block_data)],
          id_cnt |-> cnt1, ret |-> "Ok", header |-> block_header,
          read_failed |-> s.read_failed]

\* build_block after its skip-list part s
build_block_skip(block_id, prev_hash, objs, block_data0, data_root, nodes1, intra1, s, c, cnt) ==
    build_block_end(s,
        [block_id |-> block_id, prev_hash |-> prev_hash, data_root |-> data_root,
         skip_list_root |-> IF s.skip_list_ids # <<>>
                            THEN concat_digest(s.skip_list_digests) ELSE NoValue],
        [block_data0 EXCEPT !.skip_list_ids = s.skip_list_ids],
        [c EXCEPT !.objects = PutAll(@, objs, Len(objs)), !.intra_index_nodes = nodes1,
                  !.skip_list_nodes = s.nodes],
        [obj |-> cnt.obj + Len(objs), intra |-> intra1, skip |-> s.cnt])

\* build_block once block_data and data_root are computed
build_block_data(block_id, prev_hash, objs, block_data0, data_root, nodes1, intra1, c, cnt, fault) ==
    build_block_skip(block_id, prev_hash, objs, block_data0, data_root, nodes1, intra1,
                     BuildSkipList(block_id, block_data0, c, cnt, fault), c, cnt)

\* if param.intra_index { .. }: the block data of the intra index ix
build_block_index(block_id, prev_hash, objs, ix, c, cnt, fault) ==
    build_block_data(block_id, prev_hash, objs,
        [block_id |-> block_id, data |-> [kind |-> "Index", root |-> ix.root.id, ids |-> <<>>],
         set_data |-> ix.root.set_data, acc_value |-> ix.root.acc_value,
         skip_list_ids |-> <<>>],
        IntraIndexNode_to_digest(ix.root), ix.nodes, ix.cnt, c, cnt, fault)

\* else { .. }: the block data of the flat list of objects, flat_set the union of their sets
build_block_flat(block_id, prev_hash, objs, flat_set, c, cnt, fault) ==
    build_block_data(block_id, prev_hash, objs,
        [block_id |-> block_id,
         data |-> [kind |-> "Flat", root |-> None, ids |-> SeqOf([k \in 1..Len(objs) |-> objs[k].id])],
         set_data |-> flat_set, acc_value |-> multiset_to_g1(flat_set, c.param),
         skip_list_ids |-> <<>>],
        concat_digest(SeqOf([k \in 1..Len(objs) |->
            concat_digest(<<G1_to_digest(objs[k].acc_value), Object_to_digest(objs[k])>>)])),
        c.intra_index_nodes, cnt.intra, c, cnt, fault)

\* build_block once the objects are created
build_block_objs(block_id, prev_hash, objs, c, cnt, fault) ==
    IF c.param.intra_index
    THEN build_block_index(block_id, prev_hash, objs,
             BuildIntraIndex(block_id, objs, c.intra_index_nodes, cnt.intra, c.param),
             c, cnt, fault)
    ELSE build_block_flat(block_id, prev_hash, objs, UnionOfObjs(objs, Len(objs)), c, cnt, fault)

\* build_block(block_id, prev_hash, raw_objs, chain): the store, the counters and the
\* return value after the call; fault names the reads that fail during the call, and
\* read_failed tells whether the call made one of them
build_block(block_id, prev_hash, raw_objs, c, cnt, fault) ==
    build_block_objs(block_id, prev_hash,
        SeqOf([k \in 1..Len(raw_objs) |-> Object_create(raw_objs[k], c.param, cnt.obj + k - 1)]),
        c, cnt, fault)

(***************************************************************************)
(* Query (query.rs)                                                        *)
(***************************************************************************)
NoOpt == [some |-> FALSE, val |-> <<>>]

Some(x) == [some |-> TRUE, val |-> x]

Query_to_bool_exp(q, bit_len) ==
    (IF q.q_range.some THEN RangeExpOf(q.q_range.val, bit_len) ELSE <<>>)
    \o (IF q.q_bool.some
        THEN SeqOf([k \in 1..Len(q.q_bool.val) |-> FromKeys({W(s) : s \in q.q_bool.val[k]})])
        ELSE <<>>)

(***************************************************************************)
(* ResultVOAcc (query_result.rs).  Indexes are zero-based as in the code;  *)
(* the sequence entry of index i is entry i + 1.                           *)
(***************************************************************************)
ResultVOAcc_new == [query_exp_sets |-> <<>>, proofs |-> <<>>, object_accs |-> <<>>]

\* HashMap entry(k).or_insert_with(Vec::new)
EntryOf(m, k) == IF k \in DOMAIN m THEN m[k] ELSE <<>>

PositionOf_none(sets, set) == None

\* iter().position(|s| s == query_exp_set), zero-based, or None
PositionOf(sets, set) ==
    LET hit == {k \in 1..Len(sets) : sets[k] = set}
    IN  IF hit = {} THEN None ELSE SetMin(hit) - 1

\* the end of add_proof: the proof and the accumulator of the object are stored under idx
add_proof_push(va, idx, ap, proofs1, acc_ptr) ==
    [ok |-> TRUE,
     va |-> [va EXCEPT !.proofs = Put(@, idx, proofs1), !.object_accs = Put(@, idx, acc_ptr)],
     idx |-> IF ap = "ACC1" THEN <<idx, Len(proofs1) - 1>> ELSE <<idx, Len(acc_ptr) - 1>>]

\* add_proof once the index idx of the query set is known; g is AP::gen_proof(..)?
add_proof_at(va, idx, ap, g, object_acc) ==
    IF ~g.ok THEN [ok |-> FALSE, va |-> va, idx |-> <<0, 0>>]
    ELSE add_proof_push(va, idx, ap,
             IF ap = "ACC1" THEN Append(EntryOf(va.proofs, idx), g.proof)
             ELSE IF EntryOf(va.proofs, idx) = <<>> THEN <<g.proof>>
             ELSE [EntryOf(va.proofs, idx) EXCEPT ![1] = combine_proof(@, g.proof)],
             Append(EntryOf(va.object_accs, idx), object_acc))

\* ResultVOAcc::add_proof for the proof type ap: the query set is pushed unless
\* position() finds it
add_proof(va, ap, query_exp_set, object_set, object_acc) ==
    IF PositionOf(va.query_exp_sets, query_exp_set) = None
    THEN add_proof_at([va EXCEPT !.query_exp_sets = Append(@, query_exp_set)],
                      Len(va.query_exp_sets), ap,
                      gen_proof(ap, object_set, query_exp_set), object_acc)
    ELSE add_proof_at(va, PositionOf(va.query_exp_sets, query_exp_set), ap,
                      gen_proof(ap, object_set, query_exp_set), object_acc)

\* ResultVOAcc::get_object_acc
has_object_acc(va, proof_idx) ==
    /\ proof_idx[1] \in DOMAIN va.object_accs
    /\ proof_idx[2] + 1 \in DOMAIN va.object_accs[proof_idx[1]]

get_object_acc(va, proof_idx) == va.object_accs[proof_idx[1]][proof_idx[2] + 1]

(***************************************************************************)
(* VO nodes (query_result.rs, mod vo)                                      *)
(***************************************************************************)
NoIdx == <<0, 0>>

MatchObjNode(o) == [kind |-> "Match", obj_id |-> o.id, obj_hash |-> NoValue, proof_idx |-> NoIdx]

NoMatchObjNode(o, proof_idx) ==
    [kind |-> "NoMatch", obj_id |-> o.id, obj_hash |-> Object_to_digest(o), proof_idx |-> proof_idx]

IntraNode(kind, id, obj_id, hash, proof_idx, acc_value) ==
    [kind |-> kind, id |-> id, obj_id |-> obj_id, hash |-> hash, proof_idx |-> proof_idx,
     acc_value |-> acc_value, nchildren |-> 0]

NoAcc == [t |-> "", set |-> EmptySet]

IntraEmpty == IntraNode("Empty", 0, 0, NoValue, NoIdx, NoAcc)

NoMatchIntraNonLeaf(n, proof_idx) ==
    IntraNode("NoMatchIntraNonLeaf", n.id, 0, n.child_hash_digest, proof_idx, NoAcc)

NoMatchIntraLeaf(n, proof_idx) ==
    IntraNode("NoMatchIntraLeaf", n.id, 0, n.obj_hash, proof_idx, NoAcc)

MatchIntraLeaf(n) == IntraNode("MatchIntraLeaf", n.id, n.obj_id, NoValue, NoIdx, NoAcc)

IntraNonLeaf(n) == IntraNode("IntraNonLeaf", n.id, 0, NoValue, NoIdx, n.acc_value)

JumpNode(n, proof_idx) == [kind |-> "Jump", id |-> n.id, proof_idx |-> proof_idx, digest |-> NoValue]

NoJumpNode(n) == [kind |-> "NoJump", id |-> n.id, proof_idx |-> NoIdx, digest |-> n.digest]

(***************************************************************************)
(* historical_query (historical_query.rs).  r is the result under          *)
(* construction: [ok, res_objs, vo_t, vo_acc].                             *)
(***************************************************************************)
\* vo_acc.add_proof::<AP>(&query_exp.inner[mismatch_idx], set_data, acc_value) for a set
\* that mismatches the expression
prove_mismatch_first(va, ap, query_exp, set_data, acc_value) ==
    add_proof(va, ap, query_exp[1], set_data, acc_value)

prove_mismatch(va, ap, query_exp, set_data, acc_value) ==
    add_proof(va, ap, query_exp[mismatch_idx(query_exp, set_data) + 1], set_data, acc_value)

\* the k-th child of the VO node at path becomes vo
Placed(st, path, k, vo) ==
    [st EXCEPT !.tree = Put(Put(@, path, [@[path] EXCEPT !.nchildren = k]), Append(path, k), vo)]

\* the child loop of query_block_intra_index for the non-leaf at path; st = [r, tree, queue]
RECURSIVE IntraChildren(_, _, _, _, _, _, _)
\* a leaf child n that mismatches, ap_res the result of add_proof
IntraChildNoMatch(k, n, node, path, st, ap_res, query_exp, c, ap) ==
    IF ~ap_res.ok THEN [st EXCEPT !.r.ok = FALSE]
    ELSE IntraChildren(k + 1, node, path,
             [Placed(st, path, k, NoMatchIntraLeaf(n, ap_res.idx)) EXCEPT !.r.vo_acc = ap_res.va],
             query_exp, c, ap)

\* the child n read from the store
IntraChild(k, n, node, path, st, query_exp, c, ap) ==
    IF n.kind = "NonLeaf"
    THEN IntraChildren(k + 1, node, path,
             [Placed(st, path, k, IntraEmpty) EXCEPT !.queue = Append(@, <<n, Append(path, k)>>)],
             query_exp, c, ap)
    ELSE IF mismatch_idx(query_exp, n.set_data) # None
    THEN IntraChildNoMatch(k, n, node, path, st,
             prove_mismatch(st.r.vo_acc, ap, query_exp, n.set_data, n.acc_value),
             query_exp, c, ap)
    ELSE IF n.obj_id \notin DOMAIN c.objects THEN [st EXCEPT !.r.ok = FALSE]
    ELSE IntraChildren(k + 1, node, path,
             [Placed(st, path, k, MatchIntraLeaf(n))
                 EXCEPT !.r.res_objs = Put(@, n.obj_id, c.objects[n.obj_id])],
             query_exp, c, ap)

IntraChildren(k, node, path, st, query_exp, c, ap) ==
    IF k > Len(node.child_ids) \/ ~st.r.ok THEN st
    ELSE IF node.child_ids[k] \notin DOMAIN c.intra_index_nodes THEN [st EXCEPT !.r.ok = FALSE]
    ELSE IntraChild(k, c.intra_index_nodes[node.child_ids[k]], node, path, st, query_exp, c, ap)

\* while let Some((node, ptr)) = intra_index_q.pop_front(); a pointer is the path of the node
RECURSIVE IntraBFS(_, _, _, _)
\* a non-leaf that mismatches, ap_res the result of add_proof
IntraNoMatch(node, path, st, ap_res, query_exp, c, ap) ==
    IF ~ap_res.ok THEN [st EXCEPT !.r.ok = FALSE]
    ELSE IntraBFS([st EXCEPT !.tree = Put(@, path, NoMatchIntraNonLeaf(node, ap_res.idx)),
                             !.r.vo_acc = ap_res.va],
                  query_exp, c, ap)

\* the node popped from the queue
IntraVisit(node, path, st, query_exp, c, ap) ==
    IF mismatch_idx(query_exp, node.set_data) # None
    THEN IntraNoMatch(node, path, st,
             prove_mismatch(st.r.vo_acc, ap, query_exp, node.set_data, node.acc_value),
             query_exp, c, ap)
    ELSE IntraBFS(IntraChildren(1, node, path,
                      [st EXCEPT !.tree = Put(@, path, IntraNonLeaf(node))],
                      query_exp, c, ap),
                  query_exp, c, ap)

IntraBFS(st, query_exp, c, ap) ==
    IF st.queue = <<>> \/ ~st.r.ok THEN st
    ELSE IntraVisit(st.queue[1][1], st.queue[1][2], [st EXCEPT !.queue = Tail(@)],
                    query_exp, c, ap)

\* res.vo_t.push(vo_blk) with the tree the loop built
IntraBlkPushed(block_header, r, st) ==
    IF ~st.r.ok THEN [r EXCEPT !.ok = FALSE]
    ELSE [st.r EXCEPT !.vo_t = Append(@, [kind |-> "BlkNode", block_id |-> block_header.block_id,
                                          skip_list_root |-> block_header.skip_list_root,
                                          tree |-> st.tree])]

query_block_intra_index(query_exp, block_header, block_data, c, r, ap) ==
    IF block_data.data.kind # "Index" \/ block_data.data.root \notin DOMAIN c.intra_index_nodes
    THEN [r EXCEPT !.ok = FALSE]
    ELSE IF c.intra_index_nodes[block_data.data.root].kind # "NonLeaf"
    THEN [r EXCEPT !.ok = FALSE]
    ELSE IntraBlkPushed(block_header, r,
             IntraBFS([r |-> r, tree |-> (<<>> :> IntraEmpty),
                       queue |-> << <<c.intra_index_nodes[block_data.data.root], <<>> >> >>],
                      query_exp, c, ap))

\* for obj in &objs of query_block_no_intra_index; st = [r, sub_nodes]
RECURSIVE FlatObjs(_, _, _, _, _)
\* an object that mismatches, ap_res the result of add_proof
FlatNoMatch(k, objs, st, ap_res, query_exp, ap) ==
    IF ~ap_res.ok THEN [st EXCEPT !.r.ok = FALSE]
    ELSE FlatObjs(k + 1, objs,
             [st EXCEPT !.sub_nodes = Append(@, NoMatchObjNode(objs[k], ap_res.idx)),
                        !.r.vo_acc = ap_res.va],
             query_exp, ap)

FlatObjs(k, objs, st, query_exp, ap) ==
    IF k > Len(objs) \/ ~st.r.ok THEN st
    ELSE IF mismatch_idx(query_exp, objs[k].set_data) # None
    THEN FlatNoMatch(k, objs, st,
             prove_mismatch(st.r.vo_acc, ap, query_exp, objs[k].set_data, objs[k].acc_value),
             query_exp, ap)
    ELSE FlatObjs(k + 1, objs,
             [st EXCEPT !.sub_nodes = Append(@, MatchObjNode(objs[k])),
                        !.r.res_objs = Put(@, objs[k].id, objs[k])],
             query_exp, ap)

\* res.vo_t.push(vo_blk) with the sub-nodes the loop built
FlatBlkPushed(block_header, r, st) ==
    IF ~st.r.ok THEN [r EXCEPT !.ok = FALSE]
    ELSE [st.r EXCEPT !.vo_t = Append(@, [kind |-> "FlatBlkNode",
                                          block_id |-> block_header.block_id,
                                          skip_list_root |-> block_header.skip_list_root,
                                          sub_nodes |-> st.sub_nodes])]

query_block_no_intra_index(query_exp, block_header, block_data, c, r, ap) ==
    IF block_data.data.kind # "Flat"
       \/ \E k \in 1..Len(block_data.data.ids) : block_data.data.ids[k] \notin DOMAIN c.objects
    THEN [r EXCEPT !.ok = FALSE]
    ELSE FlatBlkPushed(block_header, r,
             FlatObjs(1,
                      SeqOf([k \in 1..Len(block_data.data.ids) |->
                                c.objects[block_data.data.ids[k]]]),
                      [r |-> r, sub_nodes |-> <<>>], query_exp, ap))

\* for (lvl, &skip_list_id) in blk_data.skip_list_ids.iter().enumerate().rev();
\* lvl is zero-based; st = [ok, jmp_level, sub_nodes, vo_acc]
RECURSIVE SkipScan(_, _, _, _, _, _, _, _)
\* a level whose set mismatches: the jump is taken, ap_res the result of add_proof
SkipJump(lvl, jmp_node, st, ap_res, q, block_id, blk_data, query_exp, c, ap) ==
    IF ~ap_res.ok THEN [st EXCEPT !.ok = FALSE]
    ELSE SkipScan(lvl - 1,
             [st EXCEPT !.jmp_level = lvl,
                        !.vo_acc = ap_res.va,
                        !.sub_nodes = Append(@, JumpNode(jmp_node, ap_res.idx))],
             q, block_id, blk_data, query_exp, c, ap)

SkipLevel_unguarded(lvl, jmp_node, st, q, block_id, blk_data, query_exp, c, ap) ==
    IF st.jmp_level # None
    THEN SkipScan(lvl - 1, [st EXCEPT !.sub_nodes = Append(@, NoJumpNode(jmp_node))],
                  q, block_id, blk_data, query_exp, c, ap)
    ELSE IF mismatch_idx(query_exp, jmp_node.set_data) # None
    THEN SkipJump(lvl, jmp_node, st,
             prove_mismatch(st.vo_acc, ap, query_exp, jmp_node.set_data, jmp_node.acc_value),
             q, block_id, blk_data, query_exp, c, ap)
    ELSE SkipScan(lvl - 1, [st EXCEPT !.sub_nodes = Append(@, NoJumpNode(jmp_node))],
                  q, block_id, blk_data, query_exp, c, ap)

\* the skip-list node jmp_node of the level, read from the store
SkipLevel(lvl, jmp_node, st, q, block_id, blk_data, query_exp, c, ap) ==
    IF st.jmp_level # None \/ q.start_block + skipped_blocks_num(lvl) > block_id
    THEN SkipScan(lvl - 1, [st EXCEPT !.sub_nodes = Append(@, NoJumpNode(jmp_node))],
                  q, block_id, blk_data, query_exp, c, ap)
    ELSE IF mismatch_idx(query_exp, jmp_node.set_data) # None
    THEN SkipJump(lvl, jmp_node, st,
             prove_mismatch(st.vo_acc, ap, query_exp, jmp_node.set_data, jmp_node.acc_value),
             q, block_id, blk_data, query_exp, c, ap)
    ELSE SkipScan(lvl - 1, [st EXCEPT !.sub_nodes = Append(@, NoJumpNode(jmp_node))],
                  q, block_id, blk_data, query_exp, c, ap)

SkipScan(lvl, st, q, block_id, blk_data, query_exp, c, ap) ==
    IF lvl < 0 \/ ~st.ok THEN st
    ELSE IF blk_data.skip_list_ids[lvl + 1] \notin DOMAIN c.skip_list_nodes
    THEN [st EXCEPT !.ok = FALSE]
    ELSE SkipLevel(lvl, c.skip_list_nodes[blk_data.skip_list_ids[lvl + 1]], st,
                   q, block_id, blk_data, query_exp, c, ap)

\* if !blk_data.skip_list_ids.is_empty() { .. }, from jmp_level = None
SkipListOf(block_id, r, blk_data, q, query_exp, c, ap) ==
    IF blk_data.skip_list_ids # <<>>
    THEN SkipScan(Len(blk_data.skip_list_ids) - 1,
                  [ok |-> TRUE, jmp_level |-> None, sub_nodes |-> <<>>, vo_acc |-> r.vo_acc],
                  q, block_id, blk_data, query_exp, c, ap)
    ELSE [ok |-> TRUE, jmp_level |-> None, sub_nodes |-> <<>>, vo_acc |-> r.vo_acc]

\* while block_id >= q.start_block; the status is "Underflow" when block_id -= 1 is
\* reached with block_id = 0
RECURSIVE QueryLoop(_, _, _, _, _, _)
\* the block was queried with result b; block_id -= 1
QueryBlockDone(block_id, r, b, q, query_exp, c, ap) ==
    IF ~b.ok THEN [r EXCEPT !.status = "Err"]
    ELSE IF block_id = 0
    THEN [r EXCEPT !.res_objs = b.res_objs, !.vo_t = b.vo_t, !.vo_acc = b.vo_acc,
                   !.status = "Underflow"]
    ELSE QueryLoop(block_id - 1,
                   [r EXCEPT !.res_objs = b.res_objs, !.vo_t = b.vo_t, !.vo_acc = b.vo_acc],
                   q, query_exp, c, ap)

QuerySkipped_unreversed(block_id, r, blk_header, blk_data, sk, q, query_exp, c, ap) ==
    IF ~sk.ok THEN [r EXCEPT !.status = "Err"]
    ELSE IF sk.jmp_level # None
    THEN QueryLoop(block_id - skipped_blocks_num(sk.jmp_level),
                   [r EXCEPT !.vo_t = Append(@, [kind |-> "SkipListRoot", block_id |-> block_id,
                                                 blk_prev_hash |-> blk_header.prev_hash,
                                                 blk_data_root |-> blk_header.data_root,
                                                 sub_nodes |-> sk.sub_nodes]),
                             !.vo_acc = sk.vo_acc],
                   q, query_exp, c, ap)
    ELSE IF c.param.intra_index
    THEN QueryBlockDone(block_id, r,
             query_block_intra_index(query_exp, blk_header, blk_data, c,
                 [ok |-> TRUE, res_objs |-> r.res_objs, vo_t |-> r.vo_t, vo_acc |-> r.vo_acc],
                 ap),
             q, query_exp, c, ap)
    ELSE QueryBlockDone(block_id, r,
             query_block_no_intra_index(query_exp, blk_header, blk_data, c,
                 [ok |-> TRUE, res_objs |-> r.res_objs, vo_t |-> r.vo_t, vo_acc |-> r.vo_acc],
                 ap),
             q, query_exp, c, ap)

\* the skip list of the block was scanned with result sk: jump, or query the block
QuerySkipped(block_id, r, blk_header, blk_data, sk, q, query_exp, c, ap) ==
    IF ~sk.ok THEN [r EXCEPT !.status = "Err"]
    ELSE IF sk.jmp_level # None
    THEN QueryLoop(block_id - skipped_blocks_num(sk.jmp_level),
                   [r EXCEPT !.vo_t = Append(@, [kind |-> "SkipListRoot", block_id |-> block_id,
                                                 blk_prev_hash |-> blk_header.prev_hash,
                                                 blk_data_root |-> blk_header.data_root,
                                                 sub_nodes |-> Reverse(sk.sub_nodes)]),
                             !.vo_acc = sk.vo_acc],
                   q, query_exp, c, ap)
    ELSE IF c.param.intra_index
    THEN QueryBlockDone(block_id, r,
             query_block_intra_index(query_exp, blk_header, blk_data, c,
                 [ok |-> TRUE, res_objs |-> r.res_objs, vo_t |-> r.vo_t, vo_acc |-> r.vo_acc],
                 ap),
             q, query_exp, c, ap)
    ELSE QueryBlockDone(block_id, r,
             query_block_no_intra_index(query_exp, blk_header, blk_data, c,
                 [ok |-> TRUE, res_objs |-> r.res_objs, vo_t |-> r.vo_t, vo_acc |-> r.vo_acc],
                 ap),
             q, query_exp, c, ap)

QueryLoop(block_id, r, q, query_exp, c, ap) ==
    IF block_id < q.start_block \/ r.status # "Ok" THEN r
    ELSE IF block_id \notin DOMAIN c.block_data \/ block_id \notin DOMAIN c.block_headers
    THEN [r EXCEPT !.status = "Err"]
    ELSE QuerySkipped(block_id, r, c.block_headers[block_id], c.block_data[block_id],
                      SkipListOf(block_id, r, c.block_data[block_id], q, query_exp, c, ap),
                      q, query_exp, c, ap)

\* OverallResult before the loop
OverallResult_new(q, c, ap) ==
    [status |-> "Ok", res_objs |-> <<>>, vo_t |-> <<>>, vo_acc |-> ResultVOAcc_new,
     query |-> q, v_bit_len |-> c.param.v_bit_len, ap |-> ap]

historical_query_ret_unreversed(r, r0) ==
    IF r.status = "Ok" THEN {r}
    ELSE IF r.status = "Underflow"
    THEN {[r0 EXCEPT !.status = "Panic"], [r0 EXCEPT !.status = "Err"]}
    ELSE {[r0 EXCEPT !.status = r.status]}

\* the return of historical_query: r is the result of the loop, r0 the empty result.
\* The u32 underflow depends on the build profile: with overflow checks it panics,
\* without them block_id wraps to 2^32 - 1 and the read of that block fails.
historical_query_ret(r, r0) ==
    IF r.status = "Ok" THEN {[r EXCEPT !.vo_t = Reverse(@)]}
    ELSE IF r.status = "Underflow"
    THEN {[r0 EXCEPT !.status = "Panic"], [r0 EXCEPT !.status = "Err"]}
    ELSE {[r0 EXCEPT !.status = r.status]}

\* historical_query::<AP>(q, chain): the OverallResult, or the failure
historical_query(q, c, ap) ==
    historical_query_ret(
        QueryLoop(q.end_block, OverallResult_new(q, c, ap), q,
                  Query_to_bool_exp(q, c.param.v_bit_len), c, ap),
        OverallResult_new(q, c, ap))

(***************************************************************************)
(* Verification (query_result.rs)                                          *)
(***************************************************************************)
RECURSIVE G1Sum(_, _)
G1Sum(accs, k) == IF k = 0 THEN G1Zero ELSE G1Add(G1Sum(accs, k - 1), accs[k])

\* the inner for (j, proof) of the ACC1 branch: the first proof that fails, zero-based j
Acc1Entry(va, i) ==
    LET proofs == va.proofs[i]
        q_acc == query_acc(va.query_exp_sets[i + 1], "ACC1")
        noacc == {j \in 1..Len(proofs) : ~has_object_acc(va, <<i, j - 1>>)}
        bad == {j \in 1..Len(proofs) :
                   \/ j \in noacc
                   \/ ~Acc1Proof_verify(proofs[j], get_object_acc(va, <<i, j - 1>>), q_acc)}
    IN  IF i + 1 \notin DOMAIN va.query_exp_sets THEN "InvalidSetIdx"
        ELSE IF bad = {} THEN "Ok"
        ELSE IF SetMin(bad) \in noacc THEN "InvalidAccIdx"
        ELSE "InvalidAccProof"

\* the body of the ACC2 branch; debug_assertions is the build profile
Acc2Entry(va, i, debug_assertions) ==
    LET proofs == va.proofs[i]
        q_acc == query_acc(va.query_exp_sets[i + 1], "ACC2")
        obj_accs == va.object_accs[i]
    IN  IF i + 1 \notin DOMAIN va.query_exp_sets THEN "InvalidSetIdx"
        ELSE IF i \notin DOMAIN va.object_accs THEN "InvalidSetIdx"
        ELSE IF debug_assertions /\ Len(proofs) # 1 THEN "Panic"
        ELSE IF proofs = <<>> THEN "Panic"
        ELSE IF ~Acc2Proof_verify(proofs[1], G1Sum(obj_accs, Len(obj_accs)), q_acc)
        THEN "InvalidAccProof"
        ELSE "Ok"

\* ResultVOAcc::verify iterates a HashMap: any failing entry can be met first
ResultVOAcc_verify(va, ap, debug_assertions) ==
    LET out == {IF ap = "ACC1" THEN Acc1Entry(va, i) ELSE Acc2Entry(va, i, debug_assertions) :
                   i \in DOMAIN va.proofs}
    IN  IF out \subseteq {"Ok"} THEN {"Ok"} ELSE out \ {"Ok"}

\* ObjNode::compute_digest; NoValue is the None of Option<Digest>
ObjNode_compute_digest(n, res_objs, va) ==
    IF n.kind = "Match"
    THEN IF n.obj_id \notin DOMAIN res_objs THEN NoValue
         ELSE concat_digest(<<G1_to_digest(res_objs[n.obj_id].acc_value),
                              Object_to_digest(res_objs[n.obj_id])>>)
    ELSE IF ~has_object_acc(va, n.proof_idx) THEN NoValue
         ELSE concat_digest(<<G1_to_digest(get_object_acc(va, n.proof_idx)), n.obj_hash>>)

\* the digests of a sequence of sub-nodes, or NoValue when one of them is None
AllOrNone(ds) == IF \E k \in 1..Len(ds) : ds[k] = NoValue THEN NoValue ELSE concat_digest(ds)

HeaderHash(block_id, prev_hash, data_root, skip_list_root) ==
    <<"hdr", block_id, prev_hash, data_root, skip_list_root>>

FlatBlkNode_compute_digest(n, res_objs, va, prev_hash) ==
    LET data_root == AllOrNone(SeqOf([k \in 1..Len(n.sub_nodes) |->
                                   ObjNode_compute_digest(n.sub_nodes[k], res_objs, va)]))
    IN  IF data_root = NoValue THEN NoValue
        ELSE HeaderHash(n.block_id, prev_hash, data_root, n.skip_list_root)

\* IntraNode::compute_digest of the node at path
RECURSIVE IntraNode_compute_digest(_, _, _, _)
IntraNode_compute_digest(tree, path, res_objs, va) ==
    LET n == tree[path]
        child_hash_digest ==
            AllOrNone(SeqOf([k \in 1..n.nchildren |->
                          IntraNode_compute_digest(tree, Append(path, k), res_objs, va)]))
    IN  IF n.kind = "Empty" THEN NoValue
        ELSE IF n.kind \in {"NoMatchIntraLeaf", "NoMatchIntraNonLeaf"}
        THEN IF ~has_object_acc(va, n.proof_idx) THEN NoValue
             ELSE concat_digest(<<G1_to_digest(get_object_acc(va, n.proof_idx)), n.hash>>)
        ELSE IF n.kind = "MatchIntraLeaf"
        THEN IF n.obj_id \notin DOMAIN res_objs THEN NoValue
             ELSE concat_digest(<<G1_to_digest(res_objs[n.obj_id].acc_value),
                                  Object_to_digest(res_objs[n.obj_id])>>)
        ELSE IF child_hash_digest = NoValue THEN NoValue
        ELSE concat_digest(<<G1_to_digest(n.acc_value), child_hash_digest>>)

BlkNode_compute_digest(n, res_objs, va, prev_hash) ==
    LET data_root == IntraNode_compute_digest(n.tree, <<>>, res_objs, va)
    IN  IF data_root = NoValue THEN NoValue
        ELSE HeaderHash(n.block_id, prev_hash, data_root, n.skip_list_root)

\* JumpNode::compute_digest and NoJumpNode::compute_digest
JumpOrNoJumpNode_compute_digest(n, va, prev_hash) ==
    IF n.kind = "NoJump" THEN n.digest
    ELSE IF ~has_object_acc(va, n.proof_idx) THEN NoValue
    ELSE concat_digest(<<G1_to_digest(get_object_acc(va, n.proof_idx)), prev_hash>>)

SkipListRoot_compute_digest(n, res_objs, va, prev_hash) ==
    LET skip_list_root == AllOrNone(SeqOf([k \in 1..Len(n.sub_nodes) |->
                              JumpOrNoJumpNode_compute_digest(n.sub_nodes[k], va, prev_hash)]))
    IN  IF skip_list_root = NoValue THEN NoValue
        ELSE HeaderHash(n.block_id, n.blk_prev_hash, n.blk_data_root, skip_list_root)

ResultVONode_compute_digest(n, res_objs, va, prev_hash) ==
    IF n.kind = "FlatBlkNode" THEN FlatBlkNode_compute_digest(n, res_objs, va, prev_hash)
    ELSE IF n.kind = "BlkNode" THEN BlkNode_compute_digest(n, res_objs, va, prev_hash)
    ELSE SkipListRoot_compute_digest(n, res_objs, va, prev_hash)

\* ResultVOTree::compute_digest: fold the nodes from prev_hash
RECURSIVE ResultVOTree_compute_digest(_, _, _, _, _)
ResultVOTree_compute_digest(vo_t, k, res_objs, va, prev_hash) ==
    IF k > Len(vo_t) THEN prev_hash
    ELSE LET h == ResultVONode_compute_digest(vo_t[k], res_objs, va, prev_hash)
         IN  IF h = NoValue THEN NoValue
             ELSE ResultVOTree_compute_digest(vo_t, k + 1, res_objs, va, h)

ObjCheck_skipped(r) == {"Ok"}

\* the four checks of OverallResult::inner_verify, each on its own
ObjCheck(r) ==
    LET query_exp == Query_to_bool_exp(r.query, r.v_bit_len)
    IN  IF \A id \in DOMAIN r.res_objs : is_match(query_exp, r.res_objs[id].set_data)
        THEN {"Ok"} ELSE {"InvalidMatchObj"}

QueryCheck_equal(r) ==
    LET query_exp == Query_to_bool_exp(r.query, r.v_bit_len)
    IN  IF {r.vo_acc.query_exp_sets[k] : k \in 1..Len(r.vo_acc.query_exp_sets)}
              = {query_exp[j] : j \in 1..Len(query_exp)}
        THEN {"Ok"} ELSE {"InvalidQuery"}

QueryCheck(r) ==
    LET query_exp == Query_to_bool_exp(r.query, r.v_bit_len)
    IN  IF \A k \in 1..Len(r.vo_acc.query_exp_sets) :
              \E j \in 1..Len(query_exp) : r.vo_acc.query_exp_sets[k] = query_exp[j]
        THEN {"Ok"} ELSE {"InvalidQuery"}

AccCheck(r, debug_assertions) == ResultVOAcc_verify(r.vo_acc, r.ap, debug_assertions)

HashCheck(r, c) ==
    IF r.query.start_block \notin DOMAIN c.block_headers
       \/ r.query.end_block \notin DOMAIN c.block_headers
    THEN {"Err"}
    ELSE LET prev_hash == c.block_headers[r.query.start_block].prev_hash
             hash_root == BlockHeader_to_digest(c.block_headers[r.query.end_block])
         IN  IF ResultVOTree_compute_digest(r.vo_t, 1, r.res_objs, r.vo_acc, prev_hash) # hash_root
             THEN {"InvalidHash"} ELSE {"Ok"}

\* OverallResult::inner_verify: the verdicts it can return for r against the headers of c,
\* each with the checks that were evaluated before it returned
Verdicts(tags, checks) == {[tag |-> t, checks |-> checks] : t \in tags}

inner_verify_query_first(r, c, debug_assertions) ==
    IF QueryCheck(r) # {"Ok"} THEN Verdicts(QueryCheck(r), <<"query">>)
    ELSE IF ObjCheck(r) # {"Ok"} THEN Verdicts(ObjCheck(r), <<"query", "obj">>)
    ELSE IF AccCheck(r, debug_assertions) # {"Ok"}
    THEN Verdicts(AccCheck(r, debug_assertions), <<"query", "obj", "acc">>)
    ELSE Verdicts(HashCheck(r, c), <<"query", "obj", "acc", "hash">>)

inner_verify(r, c, debug_assertions) ==
    IF ObjCheck(r) # {"Ok"} THEN Verdicts(ObjCheck(r), <<"obj">>)
    ELSE IF QueryCheck(r) # {"Ok"} THEN Verdicts(QueryCheck(r), <<"obj", "query">>)
    ELSE IF AccCheck(r, debug_assertions) # {"Ok"}
    THEN Verdicts(AccCheck(r, debug_assertions), <<"obj", "query", "acc">>)
    ELSE Verdicts(HashCheck(r, c), <<"obj", "query", "acc", "hash">>)

(***************************************************************************)
(* Inputs of the model                                                     *)
(***************************************************************************)
Params ==
    [v_bit_len : {ChainBitLen}, acc_type : AccTypes, intra_index : BOOLEAN,
     skip_list_max_level : {0, MaxSkipLevel}]

RawObj(v, w) == [v_data |-> <<v>>, w_data |-> w]

\* the object lists a block is built from
BlockMenu ==
    { <<RawObj(1, {"a"})>>,
      <<RawObj(1, {"b"}), RawObj(2, {"a"}), RawObj(3, {"b"})>> }

\* the predicates of the queries: q_range and q_bool
PredMenu ==
    { [q_range |-> Some(<< <<1>>, <<1>> >>), q_bool |-> Some(<<{"a"}>>)],
      [q_range |-> NoOpt, q_bool |-> Some(<<{"b"}>>)],
      [q_range |-> Some(<< <<0>>, <<3>> >>), q_bool |-> NoOpt] }

\* the ids a chain may start at
FirstIds == {0, 1}

(***************************************************************************)
(* State                                                                   *)
(***************************************************************************)
EmptyChain(param) ==
    [param |-> param, block_headers |-> <<>>, block_data |-> <<>>,
     intra_index_nodes |-> <<>>, skip_list_nodes |-> <<>>, objects |-> <<>>]

NoRes == [status |-> "none"]

NoVerdict == [tag |-> "none", checks |-> <<>>]

Blocks == DOMAIN chain.block_headers

\* the id and prev_hash the driver passes to the next build_block (build_chain in tests.rs)
NextIds == IF Blocks = {} THEN FirstIds ELSE {SetMax(Blocks) + 1}

PrevHash_zero == ZeroDigest

PrevHash ==
    IF Blocks = {} THEN ZeroDigest ELSE BlockHeader_to_digest(chain.block_headers[SetMax(Blocks)])

InitChain ==
    /\ chain \in {EmptyChain(p) : p \in Params}
    /\ id_cnt = [obj |-> 0, intra |-> 0, skip |-> 0]
    /\ build_ret = "none"
    /\ res = NoRes
    /\ verdict = NoVerdict
    /\ adv = <<>>
    /\ io_failed = FALSE

Init ==
    /\ InitChain
    /\ fn_in = <<>>
    /\ fn_out = <<>>

(***************************************************************************)
(* Operations                                                              *)
(***************************************************************************)
RawObjs(objs, id) ==
    SeqOf([k \in 1..Len(objs) |->
              [block_id |-> id, v_data |-> objs[k].v_data, w_data |-> objs[k].w_data]])

\* the driver appends a block: build_block(id, digest of the previous header, objs, chain)
BuildBlock ==
    /\ Cardinality(Blocks) < MaxBlocks
    /\ res = NoRes
    /\ build_ret # "Err"
    /\ \E objs \in BlockMenu, id \in NextIds :
          \E b \in {build_block(id, PrevHash, RawObjs(objs, id), chain, id_cnt, NoFault)} :
              /\ chain' = b.chain
              /\ id_cnt' = b.id_cnt
              /\ build_ret' = b.ret
              /\ io_failed' = b.read_failed
    /\ UNCHANGED <<res, verdict, adv, fn_in, fn_out>>

\* historical_query for the predicate p over blocks s..e with the proof type of the chain
QueryOf(s, e, p) ==
    [start_block |-> s, end_block |-> e, q_range |-> p.q_range, q_bool |-> p.q_bool]

\* a client runs historical_query over stored blocks
RunQuery ==
    /\ res = NoRes
    /\ \E s \in Blocks, e \in Blocks, p \in PredMenu :
          /\ s <= e
          /\ res' \in historical_query(QueryOf(s, e, p), chain, chain.param.acc_type)
    /\ UNCHANGED <<chain, id_cnt, build_ret, verdict, adv, io_failed, fn_in, fn_out>>

\* the client verifies the result it holds against the headers of the chain
Verify ==
    /\ res.status = "Ok"
    /\ verdict = NoVerdict
    /\ \E debug_assertions \in BOOLEAN :
          verdict' \in inner_verify(res, chain, debug_assertions)
    /\ UNCHANGED <<chain, id_cnt, build_ret, res, adv, io_failed, fn_in, fn_out>>

Next == BuildBlock \/ RunQuery \/ Verify

Spec == Init /\ [][Next]_vars

(***************************************************************************)
(* The service provider presents a result of its choice: the honest result *)
(* with one or two changes.  It knows the whole chain.                     *)
(***************************************************************************)
QueryExpOf(r) == Query_to_bool_exp(r.query, r.v_bit_len)

\* a set that intersects every set of the query expression of r
AllExpSet(r) == FromKeys(UNION {Keys(QueryExpOf(r)[j]) : j \in 1..Len(QueryExpOf(r))})

\* an object that is not stored on the chain
FabricatedObj(r, c, id) ==
    Object_create([block_id |-> r.query.end_block, v_data |-> <<0>>, w_data |-> {}], c.param, id)

\* the VO is replaced by the skip-list root of the end block with no level proven
NoJumpOnly(r, c) ==
    LET e == r.query.end_block
        ids == c.block_data[e].skip_list_ids
    IN  [r EXCEPT !.res_objs = <<>>,
                  !.vo_acc = ResultVOAcc_new,
                  !.vo_t = << [kind |-> "SkipListRoot", block_id |-> e,
                               blk_prev_hash |-> c.block_headers[e].prev_hash,
                               blk_data_root |-> c.block_headers[e].data_root,
                               sub_nodes |-> SeqOf([k \in 1..Len(ids) |->
                                                NoJumpNode(c.skip_list_nodes[ids[k]])])] >>]

\* the places of the VO that prove one object not to match: <<node, position, object id>>
NoMatchPlaces(r, c) ==
    UNION {IF r.vo_t[i].kind = "FlatBlkNode"
           THEN {<<i, k, r.vo_t[i].sub_nodes[k].obj_id>> :
                    k \in {j \in 1..Len(r.vo_t[i].sub_nodes) :
                              r.vo_t[i].sub_nodes[j].kind = "NoMatch"}}
           ELSE IF r.vo_t[i].kind = "BlkNode"
           THEN {<<i, p, c.intra_index_nodes[r.vo_t[i].tree[p].id].obj_id>> :
                    p \in {q \in DOMAIN r.vo_t[i].tree :
                              r.vo_t[i].tree[q].kind = "NoMatchIntraLeaf"}}
           ELSE {} : i \in 1..Len(r.vo_t)}

\* a stored object that does not match is presented as a match, with a set_data that does
ForgedAt(r, c, at, obj) ==
    [r EXCEPT !.res_objs = Put(@, obj.id, obj),
              !.vo_t[at[1]] =
                  IF @.kind = "FlatBlkNode"
                  THEN [@ EXCEPT !.sub_nodes[at[2]] = MatchObjNode(obj)]
                  ELSE [@ EXCEPT !.tree =
                           Put(@, at[2], MatchIntraLeaf(c.intra_index_nodes[@[at[2]].id]))]]

ForgedSetData(r, c) ==
    ForgedAt(r, c, CHOOSE t \in NoMatchPlaces(r, c) : TRUE,
             [c.objects[(CHOOSE t \in NoMatchPlaces(r, c) : TRUE)[3]]
                 EXCEPT !.set_data = AllExpSet(r)])

\* an object that is not on the chain is added to the result, with a set_data that matches
ExtraObject(r, c, id) ==
    [r EXCEPT !.res_objs = Put(@, id, [FabricatedObj(r, c, id) EXCEPT !.set_data = AllExpSet(r)])]

\* an object that does not match is added to the result
MismatchObj(r, c, id) == [r EXCEPT !.res_objs = Put(@, id, FabricatedObj(r, c, id))]

\* a set that is foreign to every query is added to the query sets of the VO
ExtraQuerySet(r) == [r EXCEPT !.vo_acc.query_exp_sets = Append(@, FromKeys({W("zz")}))]

\* the query of the result is given another q_range
ReplaceRange(r, opt) == [r EXCEPT !.query.q_range = opt]

RangeOptions == {NoOpt} \cup {Some(range) : range \in ChainRanges}

\* the proof list of one query set is emptied
EmptyProofs(r) == [r EXCEPT !.vo_acc.proofs = Put(@, SetMin(DOMAIN @), <<>>)]

\* the first proof of one query set is replaced by a proof made for another object set
WrongProof(r) ==
    LET i == SetMin(DOMAIN r.vo_acc.proofs)
        other == gen_proof(r.ap, EmptySet, r.vo_acc.query_exp_sets[i + 1]).proof
    IN  [r EXCEPT !.vo_acc.proofs = Put(@, i, [@[i] EXCEPT ![1] = other])]

\* the object accumulators of one query set are removed
DropAccs(r) ==
    LET i == SetMin(DOMAIN r.vo_acc.object_accs)
    IN  [r EXCEPT !.vo_acc.object_accs = MapOf([k \in (DOMAIN @) \ {i} |-> @[k]])]

\* the VO node of the end block is removed
DropNode(r) == [r EXCEPT !.vo_t = SubSeq(@, 1, Len(@) - 1)]

\* the places of the VO that return an object of a flat block: <<node, position>>
MatchPlaces(r) ==
    UNION {IF r.vo_t[i].kind = "FlatBlkNode"
           THEN {<<i, k>> : k \in {j \in 1..Len(r.vo_t[i].sub_nodes) :
                                     /\ r.vo_t[i].sub_nodes[j].kind = "Match"
                                     /\ r.vo_t[i].sub_nodes[j].obj_id \in DOMAIN r.res_objs}}
           ELSE {} : i \in 1..Len(r.vo_t)}

\* a returned object is withheld: its node becomes a NoMatch node whose proof_idx names an
\* accumulator stored under a key of object_accs that has no entry in proofs
UnprovenAccAt(r, at, key) ==
    LET obj == r.res_objs[r.vo_t[at[1]].sub_nodes[at[2]].obj_id]
    IN  [r EXCEPT !.res_objs = MapOf([id \in (DOMAIN @) \ {obj.id} |-> @[id]]),
                  !.vo_acc.object_accs = Put(@, key, <<obj.acc_value>>),
                  !.vo_t[at[1]].sub_nodes[at[2]] = NoMatchObjNode(obj, <<key, 0>>)]

UnprovenAcc(r) ==
    UnprovenAccAt(r, CHOOSE at \in MatchPlaces(r) : TRUE, Len(r.vo_acc.query_exp_sets))

TamperKinds ==
    {"NoJumpOnly", "ForgedSetData", "ExtraObject", "MismatchObj", "ExtraQuerySet",
     "ReplaceRange", "EmptyProofs", "WrongProof", "DropAccs", "DropNode", "UnprovenAcc"}

\* the changes that are made together
TamperPairs ==
    { <<"MismatchObj", "ExtraQuerySet">>, <<"MismatchObj", "WrongProof">>,
      <<"MismatchObj", "EmptyProofs">>, <<"MismatchObj", "DropNode">>,
      <<"ExtraQuerySet", "WrongProof">>, <<"ExtraQuerySet", "EmptyProofs">>,
      <<"ExtraQuerySet", "DropNode">>, <<"WrongProof", "DropNode">> }

CanTamper(kind, r, c, opt) ==
    CASE kind = "NoJumpOnly" -> c.block_data[r.query.end_block].skip_list_ids # <<>>
      [] kind = "ForgedSetData" -> NoMatchPlaces(r, c) # {}
      [] kind = "ReplaceRange" -> opt # r.query.q_range
      [] kind = "EmptyProofs" -> DOMAIN r.vo_acc.proofs # {}
      [] kind = "WrongProof" ->
            /\ DOMAIN r.vo_acc.proofs # {}
            /\ r.vo_acc.proofs[SetMin(DOMAIN r.vo_acc.proofs)] # <<>>
      [] kind = "DropAccs" -> DOMAIN r.vo_acc.object_accs # {}
      [] kind = "DropNode" -> r.vo_t # <<>>
      [] kind = "UnprovenAcc" -> MatchPlaces(r) # {}
      [] OTHER -> TRUE

Tampered(kind, r, c, id, opt) ==
    CASE kind = "NoJumpOnly" -> NoJumpOnly(r, c)
      [] kind = "ForgedSetData" -> ForgedSetData(r, c)
      [] kind = "ExtraObject" -> ExtraObject(r, c, id)
      [] kind = "MismatchObj" -> MismatchObj(r, c, id)
      [] kind = "ExtraQuerySet" -> ExtraQuerySet(r)
      [] kind = "ReplaceRange" -> ReplaceRange(r, opt)
      [] kind = "EmptyProofs" -> EmptyProofs(r)
      [] kind = "WrongProof" -> WrongProof(r)
      [] kind = "DropAccs" -> DropAccs(r)
      [] kind = "UnprovenAcc" -> UnprovenAcc(r)
      [] OTHER -> DropNode(r)

\* a client queries the whole chain
RunQueryAll ==
    /\ res = NoRes
    /\ Blocks # {}
    /\ \E p \in PredMenu :
          res' \in historical_query(QueryOf(SetMin(Blocks), SetMax(Blocks), p), chain,
                                    chain.param.acc_type)
    /\ UNCHANGED <<chain, id_cnt, build_ret, verdict, adv, io_failed, fn_in, fn_out>>

\* the service provider changes the result before the client verifies it
Tamper ==
    /\ res.status = "Ok"
    /\ verdict = NoVerdict
    /\ \E kind \in TamperKinds :
          \E opt \in IF kind = "ReplaceRange" THEN RangeOptions ELSE {NoOpt} :
             /\ adv = <<>> \/ (Len(adv) = 1 /\ <<adv[1], kind>> \in TamperPairs)
             /\ CanTamper(kind, res, chain, opt)
             /\ res' = Tampered(kind, res, chain, id_cnt.obj, opt)
             /\ adv' = Append(adv, kind)
    /\ UNCHANGED <<chain, id_cnt, build_ret, verdict, io_failed, fn_in, fn_out>>

NextAdv == BuildBlock \/ RunQueryAll \/ Tamper \/ Verify

SpecAdv == Init /\ [][NextAdv]_vars

(***************************************************************************)
(* Builds during which a storage read fails                                *)
(***************************************************************************)
\* one read of a stored block fails: its header, or its data
Faults ==
    {[hdr |-> {b}, data |-> {}] : b \in Blocks} \cup {[hdr |-> {}, data |-> {b}] : b \in Blocks}

BuildBlockFaulty ==
    /\ Cardinality(Blocks) < MaxBlocks
    /\ res = NoRes
    /\ build_ret # "Err"
    /\ \E objs \in BlockMenu, id \in NextIds, fault \in Faults :
          \E b \in {build_block(id, PrevHash, RawObjs(objs, id), chain, id_cnt, fault)} :
              /\ chain' = b.chain
              /\ id_cnt' = b.id_cnt
              /\ build_ret' = b.ret
              /\ io_failed' = b.read_failed
    /\ UNCHANGED <<res, verdict, adv, fn_in, fn_out>>

NextFault == BuildBlock \/ BuildBlockFaulty

SpecFault == Init /\ [][NextFault]_vars

(***************************************************************************)
(* The range reduction on its own: v_data_to_set and Range::to_bool_exp of *)
(* one dimension of n bits                                                 *)
(***************************************************************************)
RangeInputs == UNION {[n : {n}, l : 0..(Pow2(n) - 1), r : 0..(Pow2(n) - 1)] : n \in 1..MaxBitLen}

InitRange ==
    /\ chain = EmptyChain(CHOOSE p \in Params : TRUE)
    /\ id_cnt = [obj |-> 0, intra |-> 0, skip |-> 0]
    /\ build_ret = "none"
    /\ res = NoRes
    /\ verdict = NoVerdict
    /\ adv = <<>>
    /\ io_failed = FALSE
    /\ fn_in \in RangeInputs
    /\ fn_out = <<>>

\* the query side: the expression of the range [l, r]
ApplyRange ==
    /\ fn_out = <<>>
    /\ fn_out' = [exp |-> Range_to_bool_exp(<< <<fn_in.l>>, <<fn_in.r>> >>, <<fn_in.n>>)]
    /\ UNCHANGED <<chain, id_cnt, build_ret, res, verdict, adv, io_failed, fn_in>>

\* the object side: the set of a value v
ApplySet ==
    /\ DOMAIN fn_out = {"exp"}
    /\ \E v \in 0..(Pow2(fn_in.n) - 1) :
          fn_out' = [exp |-> fn_out.exp, v |-> v, set |-> v_data_to_set(<<v>>, <<fn_in.n>>)]
    /\ UNCHANGED <<chain, id_cnt, build_ret, res, verdict, adv, io_failed, fn_in>>

NextRange == ApplyRange \/ ApplySet

SpecRange == InitRange /\ [][NextRange]_vars

(***************************************************************************)
(* A store that outlives the process.  OBJECT_ID_CNT, INTRA_INDEX_ID_CNT   *)
(* and SKIP_LIST_ID_CNT are statics of the process: a new process starts   *)
(* them at 0 over the store the previous one wrote (the exonum service     *)
(* keeps the store in its database).                                       *)
(***************************************************************************)
Restart ==
    /\ Blocks # {}
    /\ res = NoRes
    /\ id_cnt # [obj |-> 0, intra |-> 0, skip |-> 0]
    /\ id_cnt' = [obj |-> 0, intra |-> 0, skip |-> 0]
    /\ UNCHANGED <<chain, build_ret, res, verdict, adv, io_failed, fn_in, fn_out>>

NextRestart == BuildBlock \/ Restart

SpecRestart == Init /\ [][NextRestart]_vars

(***************************************************************************)
(* The intra index on its own: blocks of zero to MaxObjs objects built on  *)
(* a chain with the intra index                                            *)
(***************************************************************************)
ObjAlphabet == {RawObj(1, {"a"}), RawObj(2, {"a"}), RawObj(3, {"b"}), RawObj(1, {"b", "c"})}

ObjLists == UNION {[1..n -> ObjAlphabet] : n \in 0..MaxObjs}

InitIndex ==
    /\ chain \in {EmptyChain(p) : p \in {q \in Params : q.skip_list_max_level = 0}}
    /\ id_cnt = [obj |-> 0, intra |-> 0, skip |-> 0]
    /\ build_ret = "none"
    /\ res = NoRes
    /\ verdict = NoVerdict
    /\ adv = <<>>
    /\ io_failed = FALSE
    /\ fn_in \in ObjLists
    /\ fn_out = <<>>

\* the driver builds two blocks of the objects fn_in
BuildObjs ==
    /\ Cardinality(Blocks) < 2
    /\ res = NoRes
    /\ \E b \in {build_block(Cardinality(Blocks) + 1, PrevHash,
                              RawObjs(fn_in, Cardinality(Blocks) + 1), chain, id_cnt, NoFault)} :
          /\ chain' = b.chain
          /\ id_cnt' = b.id_cnt
          /\ build_ret' = b.ret
          /\ io_failed' = b.read_failed
    /\ UNCHANGED <<res, verdict, adv, fn_in, fn_out>>

NextIndex == BuildObjs \/ RunQuery

SpecIndex == InitIndex /\ [][NextIndex]_vars

(***************************************************************************)
(* Queries over a chain long enough to store skip-list nodes of two        *)
(* levels: blocks 1..SkipChainLen of one object each, with the keyword "a" *)
(* in at most two blocks and "b" in the others                             *)
(***************************************************************************)
SkipChainLen == skipped_blocks_num(1) + 1

\* build_chain: block n appended to the chain prev built so far
BuiltNext(n, aset, prev) ==
    build_block(n,
        IF n = 1 THEN ZeroDigest ELSE BlockHeader_to_digest(prev.chain.block_headers[n - 1]),
        RawObjs(<<RawObj(1, IF n \in aset THEN {"a"} ELSE {"b"})>>, n),
        prev.chain, prev.id_cnt, NoFault)

RECURSIVE BuiltChain(_, _, _)
BuiltChain(n, aset, param) ==
    IF n = 0 THEN [chain |-> EmptyChain(param), id_cnt |-> [obj |-> 0, intra |-> 0, skip |-> 0]]
    ELSE BuiltNext(n, aset, BuiltChain(n - 1, aset, param))

InitSkip ==
    /\ \E aset \in {u \in SUBSET (1..SkipChainLen) : Cardinality(u) <= 2},
          p \in [v_bit_len : {ChainBitLen}, acc_type : AccTypes, intra_index : {FALSE},
                 skip_list_max_level : {MaxSkipLevel + 1}] :
          \E b \in {BuiltChain(SkipChainLen, aset, p)} :
              /\ chain = b.chain
              /\ id_cnt = b.id_cnt
    /\ build_ret = "Ok"
    /\ res = NoRes
    /\ verdict = NoVerdict
    /\ adv = <<>>
    /\ io_failed = FALSE
    /\ fn_in = <<>>
    /\ fn_out = <<>>

NextSkip == RunQuery

SpecSkip == InitSkip /\ [][NextSkip]_vars

(***************************************************************************)
(* ResultVOAcc::add_proof on its own: up to MaxCalls calls on one          *)
(* ResultVOAcc, for query sets and object sets over four keywords.         *)
(* fn_in is the proof type; fn_out holds the ResultVOAcc, the index and    *)
(* the accumulator of every successful call and whether a call failed      *)
(***************************************************************************)
QuerySetMenu == {FromKeys({W("a")}), FromKeys({W("b")}), FromKeys({W("a"), W("b")})}

ObjectSetMenu == {FromKeys({W("c")}), FromKeys({W("c"), W("d")}), FromKeys({W("a"), W("d")})}

InitAddProof ==
    /\ chain = EmptyChain(CHOOSE p \in Params : TRUE)
    /\ id_cnt = [obj |-> 0, intra |-> 0, skip |-> 0]
    /\ build_ret = "none"
    /\ res = NoRes
    /\ verdict = NoVerdict
    /\ adv = <<>>
    /\ io_failed = FALSE
    /\ fn_in \in AccTypes
    /\ fn_out = [va |-> ResultVOAcc_new, calls |-> <<>>, failed |-> FALSE]

\* vo_acc.add_proof(&query_exp_set, .., &object_set, &object_acc)
AddProof ==
    /\ "va" \in DOMAIN fn_out
    /\ Len(fn_out.calls) < MaxCalls
    /\ ~fn_out.failed
    /\ \E qs \in QuerySetMenu, os \in ObjectSetMenu :
          \E a \in {add_proof(fn_out.va, fn_in, qs, os, multiset_to_g1(os, [acc_type |-> fn_in]))} :
              fn_out' = [va |-> a.va,
                         calls |-> IF a.ok
                                   THEN Append(fn_out.calls,
                                            [idx |-> a.idx,
                                             acc |-> multiset_to_g1(os, [acc_type |-> fn_in])])
                                   ELSE fn_out.calls,
                         failed |-> ~a.ok]
    /\ UNCHANGED <<chain, id_cnt, build_ret, res, verdict, adv, io_failed, fn_in>>

NextAddProof == AddProof

SpecAddProof == InitAddProof /\ [][NextAddProof]_vars

(***************************************************************************)
(* BoolExp on its own: expressions of zero to MaxExp sets over three       *)
(* keywords, against a set of keywords                                     *)
(***************************************************************************)
KeywordSets == {FromKeys({W(w) : w \in ws}) : ws \in SUBSET {"a", "b", "c"}}

BoolExpInputs == [exp : UNION {[1..n -> KeywordSets] : n \in 0..MaxExp}, set : KeywordSets]

InitBoolExp ==
    /\ chain = EmptyChain(CHOOSE p \in Params : TRUE)
    /\ id_cnt = [obj |-> 0, intra |-> 0, skip |-> 0]
    /\ build_ret = "none"
    /\ res = NoRes
    /\ verdict = NoVerdict
    /\ adv = <<>>
    /\ io_failed = FALSE
    /\ fn_in \in BoolExpInputs
    /\ fn_out = <<>>

\* exp.mismatch_idx(&set) and exp.is_match(&set)
ApplyMismatch ==
    /\ fn_out = <<>>
    /\ fn_out' = [idx |-> mismatch_idx(fn_in.exp, fn_in.set),
                  match |-> is_match(fn_in.exp, fn_in.set)]
    /\ UNCHANGED <<chain, id_cnt, build_ret, res, verdict, adv, io_failed, fn_in>>

NextBoolExp == ApplyMismatch

SpecBoolExp == InitBoolExp /\ [][NextBoolExp]_vars

(***************************************************************************)
(* The accumulators on their own: multisets over three keywords with       *)
(* multiplicities up to MaxCount                                           *)
(***************************************************************************)
CountedSets == UNION {[ws -> 1..MaxCount] : ws \in SUBSET {W("a"), W("b"), W("c")}}

InitProof ==
    /\ chain = EmptyChain(CHOOSE p \in Params : TRUE)
    /\ id_cnt = [obj |-> 0, intra |-> 0, skip |-> 0]
    /\ build_ret = "none"
    /\ res = NoRes
    /\ verdict = NoVerdict
    /\ adv = <<>>
    /\ io_failed = FALSE
    /\ fn_in \in [t : AccTypes, a : CountedSets, b : CountedSets, c : CountedSets]
    /\ fn_out = <<>>

\* proof.verify(&acc1, &acc2) of the accumulator type t
Proof_verify(t, p, acc1, acc2) ==
    IF t = "ACC1" THEN Acc1Proof_verify(p, acc1, acc2) ELSE Acc2Proof_verify(p, acc1, acc2)

\* test_acc1_proof, test_acc2_proof: gen_proof(set1, set2), then verify against
\* cal_acc_g1_sk_d(set1) and the accumulator of set2
GenProof ==
    /\ fn_out = <<>>
    /\ \E g \in {gen_proof(fn_in.t, fn_in.a, fn_in.b)} :
           fn_out' = [op |-> "gen", ok |-> g.ok, proof |-> g.proof,
                      verified |-> IF g.ok
                                   THEN Proof_verify(fn_in.t, g.proof,
                                            multiset_to_g1(fn_in.a, [acc_type |-> fn_in.t]),
                                            query_acc(fn_in.b, fn_in.t))
                                   ELSE FALSE]
    /\ UNCHANGED <<chain, id_cnt, build_ret, res, verdict, adv, io_failed, fn_in>>

\* test_acc2_proof_sum: proof1.combine_proof(&proof2), then verify against
\* acc1 and acc2 + acc3
CombineProof ==
    /\ fn_out = <<>>
    /\ fn_in.t = "ACC2"
    /\ \E g1 \in {gen_proof("ACC2", fn_in.a, fn_in.b)}, g2 \in {gen_proof("ACC2", fn_in.a, fn_in.c)} :
           fn_out' = [op |-> "sum", ok |-> g1.ok /\ g2.ok,
                      proof |-> IF g1.ok /\ g2.ok THEN combine_proof(g1.proof, g2.proof) ELSE NoValue,
                      verified |-> IF g1.ok /\ g2.ok
                                   THEN Acc2Proof_verify(combine_proof(g1.proof, g2.proof),
                                            multiset_to_g1(fn_in.a, [acc_type |-> "ACC2"]),
                                            G1Add(query_acc(fn_in.b, "ACC2"), query_acc(fn_in.c, "ACC2")))
                                   ELSE FALSE]
    /\ UNCHANGED <<chain, id_cnt, build_ret, res, verdict, adv, io_failed, fn_in>>

NextProof == GenProof \/ CombineProof

SpecProof == InitProof /\ [][NextProof]_vars

(***************************************************************************)
(* The accumulator values themselves (acc/mod.rs, acc/digest_set.rs), in a *)
(* field of FieldP elements: a group element g^x is the record of its      *)
(* group and of x, the secret PRI_S and the public PUB_Q are fixed         *)
(***************************************************************************)
FieldP == 7
PRI_S == 3
PUB_Q == 5

\* Fr: sum of f[1..n]
RECURSIVE FSum(_, _)
FSum(f, n) == IF n = 0 THEN 0 ELSE (f[n] + FSum(f, n - 1)) % FieldP

\* Field::pow and FixedBaseScalarPow::apply: b^e for an exponent read as an integer
RECURSIVE FPow(_, _)
FPow(b, e) == IF e = 0 THEN 1 ELSE (b * FPow(b, e - 1)) % FieldP

\* DensePolynomial * DensePolynomial; p[i + 1] is the coefficient of x^i
PolyMul(p, q) ==
    [k \in 1..(Len(p) + Len(q) - 1) |->
        FSum([i \in 1..Len(p) |->
                 IF (k + 1 - i) \in 1..Len(q) THEN (p[i] * q[k + 1 - i]) % FieldP ELSE 0],
             Len(p))]

\* DigestSet::expand_to_poly: the product of (k + x), once per copy of each element;
\* a DigestSet is the map from the field value of an element to its count
RECURSIVE expand_to_poly(_)
expand_to_poly(set) ==
    IF DOMAIN set = {} THEN <<1>>
    ELSE LET k == SetMin(DOMAIN set)
             rest == IF set[k] = 1 THEN [e \in (DOMAIN set) \ {k} |-> set[e]]
                     ELSE [set EXCEPT ![k] = @ - 1]
         IN  PolyMul(<<k, 1>>, expand_to_poly(rest))

\* Acc1::poly_to_g1 and Acc1::poly_to_g2: idxes holds the positions of the non-zero
\* coefficients; bases and scalars are then taken at i in 0..idxes.len()
poly_to_g(grp, poly) ==
    LET idxes == {i \in 0..(Len(poly) - 1) : poly[i + 1] # 0}
        n == Cardinality(idxes)
    IN  [grp |-> grp,
         x |-> FSum([j \in 1..n |-> (poly[j] * FPow(PRI_S, j - 1)) % FieldP], n)]

\* the elements of a DigestSet in some order
RECURSIVE DigestSeq(_)
DigestSeq(set) ==
    IF DOMAIN set = {} THEN <<>>
    ELSE LET k == SetMin(DOMAIN set)
         IN  <<k>> \o DigestSeq([e \in (DOMAIN set) \ {k} |-> set[e]])

\* the product of f[1..n] in Fr
RECURSIVE FProd(_, _)
FProd(f, n) == IF n = 0 THEN 1 ELSE (f[n] * FProd(f, n - 1)) % FieldP

\* Acc1::cal_acc_g1_sk_d and Acc1::cal_acc_g2_sk_d: g^(prod (s + v)^exp)
Acc1_cal_acc_sk_d(grp, set) ==
    LET ks == DigestSeq(set)
    IN  [grp |-> grp,
         x |-> FProd([j \in 1..Len(ks) |-> FPow((PRI_S + ks[j]) % FieldP, set[ks[j]])], Len(ks))]

\* Acc1::cal_acc_g1_d and Acc1::cal_acc_g2_d
Acc1_cal_acc_d(grp, set) == poly_to_g(grp, expand_to_poly(set))

\* the power of s that ACC2 gives to the element a in G1 (a) and in G2 (PUB_Q - a)
Acc2Coeff(grp, a) == IF grp = "G1" THEN a ELSE (PUB_Q + FieldP - a) % FieldP

\* Acc2::cal_acc_g1_sk_d and Acc2::cal_acc_g2_sk_d: g^(sum s^a * b)
Acc2_cal_acc_sk_d(grp, set) ==
    LET ks == DigestSeq(set)
    IN  [grp |-> grp,
         x |-> FSum([j \in 1..Len(ks) |->
                        (FPow(PRI_S, Acc2Coeff(grp, ks[j])) * (set[ks[j]] % FieldP)) % FieldP],
                    Len(ks))]

\* Acc2::cal_acc_g1_d and Acc2::cal_acc_g2_d: multi_scalar_mul of get_g1s(a) by the counts
Acc2_cal_acc_d(grp, set) ==
    LET ks == DigestSeq(set)
        bases == [j \in 1..Len(ks) |-> FPow(PRI_S, Acc2Coeff(grp, ks[j]))]
        scalars == [j \in 1..Len(ks) |-> set[ks[j]]]
    IN  [grp |-> grp,
         x |-> FSum([j \in 1..Len(ks) |-> (bases[j] * scalars[j]) % FieldP], Len(ks))]

DigestSets ==
    UNION {[vs -> 1..MaxCount] :
              vs \in {u \in SUBSET (0..(FieldP - 1)) : Cardinality(u) <= MaxDigests}}

InitAcc ==
    /\ chain = EmptyChain(CHOOSE p \in Params : TRUE)
    /\ id_cnt = [obj |-> 0, intra |-> 0, skip |-> 0]
    /\ build_ret = "none"
    /\ res = NoRes
    /\ verdict = NoVerdict
    /\ adv = <<>>
    /\ io_failed = FALSE
    /\ fn_in \in [t : AccTypes, set : DigestSets]
    /\ fn_out = <<>>

\* test_cal_acc with Acc1: the four accumulators of one set
CalAcc1 ==
    /\ fn_out = <<>>
    /\ fn_in.t = "ACC1"
    /\ fn_out' = [op |-> "acc",
                  g1_sk |-> Acc1_cal_acc_sk_d("G1", fn_in.set), g1 |-> Acc1_cal_acc_d("G1", fn_in.set),
                  g2_sk |-> Acc1_cal_acc_sk_d("G2", fn_in.set), g2 |-> Acc1_cal_acc_d("G2", fn_in.set)]
    /\ UNCHANGED <<chain, id_cnt, build_ret, res, verdict, adv, io_failed, fn_in>>

\* test_cal_acc with Acc2
CalAcc2 ==
    /\ fn_out = <<>>
    /\ fn_in.t = "ACC2"
    /\ fn_out' = [op |-> "acc",
                  g1_sk |-> Acc2_cal_acc_sk_d("G1", fn_in.set), g1 |-> Acc2_cal_acc_d("G1", fn_in.set),
                  g2_sk |-> Acc2_cal_acc_sk_d("G2", fn_in.set), g2 |-> Acc2_cal_acc_d("G2", fn_in.set)]
    /\ UNCHANGED <<chain, id_cnt, build_ret, res, verdict, adv, io_failed, fn_in>>

NextAcc == CalAcc1 \/ CalAcc2

SpecAcc == InitAcc /\ [][NextAcc]_vars

(***************************************************************************)
(* Digest to field element (acc/utils.rs).  A digest is its 32 bytes, most *)
(* significant first; a BigInteger is its four 64-bit limbs, least         *)
(* significant first, each limb written as its 8 bytes, most significant   *)
(* first                                                                   *)
(***************************************************************************)
\* the modulus of Fr (BLS12-381 scalar field), as 32 bytes
FrModulus ==
    <<115, 237, 167, 83, 41, 157, 125, 72, 51, 57, 216, 8, 9, 161, 216, 5,
      83, 189, 164, 2, 255, 254, 91, 254, 255, 255, 255, 255, 0, 0, 0, 1>>

\* a < b for two numbers of 32 bytes
BigLess(a, b) == \E i \in 1..32 : a[i] < b[i] /\ \A j \in 1..(i - 1) : a[j] = b[j]

\* the borrow out of byte i of a - b
RECURSIVE BorrowAt(_, _, _)
BorrowAt(a, b, i) ==
    IF i > 32 THEN 0
    ELSE IF a[i] - b[i] - BorrowAt(a, b, i + 1) < 0 THEN 1 ELSE 0

\* a - b for a >= b
BigSub(a, b) == [i \in 1..32 |-> (a[i] - b[i] - BorrowAt(a, b, i + 1) + 256) % 256]

\* F::from_be_bytes_mod_order
RECURSIVE from_be_bytes_mod_order(_)
from_be_bytes_mod_order(bytes) ==
    IF BigLess(bytes, FrModulus) THEN bytes
    ELSE from_be_bytes_mod_order(BigSub(bytes, FrModulus))

\* into_repr: limb k holds the bytes 32 - 8k - 7 .. 32 - 8k of the number
into_repr(bytes) == [k \in 1..4 |-> [j \in 1..8 |-> bytes[32 - 8 * k + j]]]

\* the 32 bytes of a BigInteger
ReprBytes(num) == [i \in 1..32 |-> num[4 - ((i - 1) \div 8)][((i - 1) % 8) + 1]]

ZeroLimb == [j \in 1..8 |-> 0]

\* try_digest_to_prime_field: the limbs from index 3 on are set to 0, limb 3 is then masked
\* with 0x00ff_ffff_ffff_ffff, and from_repr gives None for a number not below the modulus
try_digest_to_prime_field(input) ==
    LET num == into_repr(from_be_bytes_mod_order(input))
        zeroed == [k \in 1..4 |-> IF k - 1 >= 3 THEN ZeroLimb ELSE num[k]]
        masked == [zeroed EXCEPT ![4] = [@ EXCEPT ![1] = 0]]
    IN  IF BigLess(ReprBytes(masked), FrModulus) THEN masked ELSE NoValue

\* 8-byte words that a digest is made of here
DigestWords ==
    {ZeroLimb, [j \in 1..8 |-> 255], [j \in 1..8 |-> IF j = 8 THEN 1 ELSE 0],
     [j \in 1..8 |-> IF j = 1 THEN 1 ELSE 0]}

InitField ==
    /\ chain = EmptyChain(CHOOSE p \in Params : TRUE)
    /\ id_cnt = [obj |-> 0, intra |-> 0, skip |-> 0]
    /\ build_ret = "none"
    /\ res = NoRes
    /\ verdict = NoVerdict
    /\ adv = <<>>
    /\ io_failed = FALSE
    /\ fn_in \in {[i \in 1..32 |-> ws[((i - 1) \div 8) + 1][((i - 1) % 8) + 1]] :
                      ws \in [1..4 -> DigestWords]}
    /\ fn_out = <<>>

\* digest_to_prime_field(&d)
ApplyDigestToField ==
    /\ fn_out = <<>>
    /\ fn_out' = [op |-> "field", num |-> try_digest_to_prime_field(fn_in)]
    /\ UNCHANGED <<chain, id_cnt, build_ret, res, verdict, adv, io_failed, fn_in>>

NextField == ApplyDigestToField

SpecField == InitField /\ [][NextField]_vars

(***************************************************************************)
(* Properties                                                              *)
(***************************************************************************)
Honest == adv = <<>>

Changed(kind) == \E k \in 1..Len(adv) : adv[k] = kind

Verified == verdict # NoVerdict

HasResult == res # NoRes /\ res.status = "Ok"

InQueryRange(r, block_id) == block_id \in r.query.start_block..r.query.end_block

\* the objects stored in the blocks of the query of r whose stored set_data matches it
MatchingStored(r, c) ==
    {id \in DOMAIN c.objects :
        /\ InQueryRange(r, c.objects[id].block_id)
        /\ is_match(QueryExpOf(r), c.objects[id].set_data)}

\* v_data and w_data satisfy the range and keyword predicates of q
Satisfies(q, o) ==
    /\ q.q_range.some =>
          \A i \in 1..Len(o.v_data) :
              (i \in DOMAIN q.q_range.val[1] /\ i \in DOMAIN q.q_range.val[2]
               /\ q.q_range.val[1][i] # None /\ q.q_range.val[2][i] # None)
                 => q.q_range.val[1][i] <= o.v_data[i] /\ o.v_data[i] <= q.q_range.val[2][i]
    /\ q.q_bool.some => \A k \in 1..Len(q.q_bool.val) : q.q_bool.val[k] \cap o.w_data # {}

HasJump(r) ==
    \E k \in 1..Len(r.vo_t) :
        /\ r.vo_t[k].kind = "SkipListRoot"
        /\ \E j \in 1..Len(r.vo_t[k].sub_nodes) : r.vo_t[k].sub_nodes[j].kind = "Jump"

\* C1: for every chain built by build_block and every query over existing blocks with
\* start_block <= end_block, historical_query returns a result, and verifying that result
\* unmodified against the chain returns Ok.
C1_HonestQueryVerifies ==
    (res # NoRes /\ Honest) =>
        /\ res.status = "Ok"
        /\ Verified => verdict.tag = "Ok"

\* C2: the res_objs of historical_query are exactly the objects stored in blocks
\* start_block..=end_block whose set_data intersects every query set: none is missing,
\* jumped-over blocks included, and none that does not match or is out of range is there.
C2_ExactResult ==
    (HasResult /\ Honest) =>
        /\ DOMAIN res.res_objs = MatchingStored(res, chain)
        /\ \A id \in DOMAIN res.res_objs : res.res_objs[id] = chain.objects[id]

\* a result that jumped over blocks, returned some objects and left others out
C2_Witness ==
    /\ HasResult /\ Honest
    /\ HasJump(res)
    /\ res.res_objs # <<>>
    /\ \E id \in DOMAIN chain.objects :
          InQueryRange(res, chain.objects[id].block_id) /\ id \notin DOMAIN res.res_objs

\* C3: for every result presented to the verifier for the query the client asked, if
\* verification returns Ok then every object stored in blocks start_block..=end_block
\* that matches the query is present in res_objs.
C3_Complete ==
    (Verified /\ verdict.tag = "Ok" /\ ~Changed("ReplaceRange")) =>
        MatchingStored(res, chain) \subseteq DOMAIN res.res_objs

\* C4: for every result presented to the verifier for the query the client asked, if
\* verification returns Ok then every object in res_objs is stored on the chain in a
\* block of start_block..=end_block, and its actual v_data and w_data satisfy the
\* range and keyword predicates of the query.
C4_Correct ==
    (Verified /\ verdict.tag = "Ok" /\ ~Changed("ReplaceRange")) =>
        \A id \in DOMAIN res.res_objs :
            /\ id \in DOMAIN chain.objects
            /\ InQueryRange(res, chain.objects[id].block_id)
            /\ res.res_objs[id].v_data = chain.objects[id].v_data
            /\ res.res_objs[id].w_data = chain.objects[id].w_data
            /\ Satisfies(res.query, chain.objects[id])

\* some returned object does not match the expression recomputed from the query of res
SomeObjMismatch ==
    \E id \in DOMAIN res.res_objs : ~is_match(QueryExpOf(res), res.res_objs[id].set_data)

\* some query set of the VO is not a set of the expression recomputed from the query of res
SomeForeignQuerySet ==
    \E k \in 1..Len(res.vo_acc.query_exp_sets) :
        \A j \in 1..Len(QueryExpOf(res)) : res.vo_acc.query_exp_sets[k] # QueryExpOf(res)[j]

\* C5 as claimed: replacing q_range in the query of a result that verifies Ok, res_objs
\* and the VO left unchanged, makes verification return a verdict other than Ok.
C5_ReplacedRangeRejected ==
    (adv = <<"ReplaceRange">> /\ Verified) => verdict.tag # "Ok"

\* C5: replacing q_range in the query of a result that verifies Ok, res_objs and the VO
\* left unchanged, makes verification return InvalidMatchObj when a returned object does
\* not match the new expression, else InvalidQuery when a query set of the VO is not
\* among the sets of the new expression, and Ok when neither is the case.
C5_ReplacedRangeVerdict ==
    (adv = <<"ReplaceRange">> /\ Verified) =>
        verdict.tag = IF SomeObjMismatch THEN "InvalidMatchObj"
                      ELSE IF SomeForeignQuerySet THEN "InvalidQuery"
                      ELSE "Ok"

\* a replaced range that the verifier accepts
C5_Witness == adv = <<"ReplaceRange">> /\ Verified /\ verdict.tag = "Ok"

\* C6: for a dimension of n bits, every value v < 2^n and every pair l <= r < 2^n, the
\* set of v_data_to_set for v intersects the set of Range::to_bool_exp for [l, r] if
\* and only if l <= v <= r.
C6_RangeIsPrefixSets ==
    ("set" \in DOMAIN fn_out /\ fn_in.l <= fn_in.r) =>
        (is_intersected_with(fn_out.exp[1], fn_out.set)
            <=> (fn_in.l <= fn_out.v /\ fn_out.v <= fn_in.r))

\* C7: the verifier runs the checks in the order object match, query-set membership,
\* accumulator proofs, hash chain; it returns the verdict of the first one that fails
\* and evaluates none after it; it returns Ok only when the four of them pass.
C7_FirstFailureWins ==
    Verified =>
        \E d \in BOOLEAN :
            LET acc_fails == ResultVOAcc_verify(res.vo_acc, res.ap, d) # {"Ok"}
            IN  IF SomeObjMismatch
                THEN verdict = [tag |-> "InvalidMatchObj", checks |-> <<"obj">>]
                ELSE IF SomeForeignQuerySet
                THEN verdict = [tag |-> "InvalidQuery", checks |-> <<"obj", "query">>]
                ELSE IF acc_fails
                THEN /\ verdict.checks = <<"obj", "query", "acc">>
                     /\ verdict.tag \in ResultVOAcc_verify(res.vo_acc, res.ap, d)
                ELSE /\ verdict.checks = <<"obj", "query", "acc", "hash">>
                     /\ verdict.tag \in HashCheck(res, chain)

\* a result that fails the object check and the query-set check: the first is returned
C7_Witness ==
    /\ adv = <<"MismatchObj", "ExtraQuerySet">>
    /\ verdict = [tag |-> "InvalidMatchObj", checks |-> <<"obj">>]

\* C8: when all returned objects match, verification returns InvalidQuery if and only
\* if the query sets of the VO contain a set that is not a set of the expression
\* recomputed from the query; sets of the query that the VO omits never cause it.
C8_InvalidQueryIffForeignSet ==
    (Verified /\ ~SomeObjMismatch) => (verdict.tag = "InvalidQuery" <=> SomeForeignQuerySet)

\* a result whose objects all match and whose VO names a set foreign to the query
C8_Witness == Verified /\ ~SomeObjMismatch /\ SomeForeignQuerySet /\ verdict.tag = "InvalidQuery"

\* C9: for every result presented to the verifier, however malformed, verification
\* ends with a verdict and never panics.
C9_NeverPanics == verdict.tag # "Panic"

\* C10: build_block returns an error whenever a storage read it makes fails, the read
\* of a previous header of the skip-list aggregation included; it never returns Ok
\* after a failed read.
C10_ReadFailurePropagates == io_failed => build_ret = "Err"

\* the set_data of blocks lo..hi aggregated as a skip-list node aggregates them: the
\* union under ACC1, the sum under ACC2
RECURSIVE WindowSet(_, _, _)
WindowSet(c, lo, hi) ==
    IF hi < lo THEN EmptySet
    ELSE IF c.param.acc_type = "ACC1"
    THEN SetUnion(WindowSet(c, lo, hi - 1), c.block_data[hi].set_data)
    ELSE SetAdd(WindowSet(c, lo, hi - 1), c.block_data[hi].set_data)

SetMin2(a, b) == IF a <= b THEN a ELSE b

\* C11 as claimed: every persisted SkipListNode of level L and block b aggregates exactly
\* min(2^(L+2), b) blocks, and they are the blocks immediately preceding b.
C11_WindowPrecedesBlock ==
    \A id \in DOMAIN chain.skip_list_nodes :
        LET n == chain.skip_list_nodes[id]
            k == SetMin2(Pow2(n.level + 2), n.block_id)
        IN  (n.block_id - k)..(n.block_id - 1) \subseteq DOMAIN chain.block_data
                => n.set_data = WindowSet(chain, n.block_id - k, n.block_id - 1)

\* C11: every persisted SkipListNode of level L and block b aggregates exactly 2^(L+2)
\* blocks: block b itself and the 2^(L+2) - 1 blocks immediately preceding it; a node
\* is persisted only when b >= 2^(L+2).
C11_WindowEndsAtBlock ==
    \A id \in DOMAIN chain.skip_list_nodes :
        LET n == chain.skip_list_nodes[id]
            k == Pow2(n.level + 2)
        IN  /\ n.block_id >= k
            /\ (n.block_id - k + 1)..n.block_id \subseteq DOMAIN chain.block_data
            /\ n.set_data = WindowSet(chain, n.block_id - k + 1, n.block_id)

\* a skip-list node of a block that has stored blocks before its window
C11_Witness ==
    \E id \in DOMAIN chain.skip_list_nodes :
        /\ chain.skip_list_nodes[id].block_id - Pow2(chain.skip_list_nodes[id].level + 2)
               \in DOMAIN chain.block_data
        /\ chain.skip_list_nodes[id].block_id \in DOMAIN chain.block_data

\* C12: the pre_skipped_hash of every persisted SkipListNode is the prev_hash of the
\* header of the earliest block the node aggregates, not the hash of that header; it is
\* the hash of the block just before the window, and the digest of the node is the hash
\* of its accumulator value and that hash.
C12_PreSkippedHash ==
    \A id \in DOMAIN chain.skip_list_nodes :
        LET n == chain.skip_list_nodes[id]
            first == n.block_id - Pow2(n.level + 2) + 1
        IN  /\ first \in DOMAIN chain.block_headers
            /\ n.pre_skipped_hash = chain.block_headers[first].prev_hash
            /\ n.pre_skipped_hash # BlockHeader_to_digest(chain.block_headers[first])
            /\ (first - 1) \in DOMAIN chain.block_headers =>
                   n.pre_skipped_hash = BlockHeader_to_digest(chain.block_headers[first - 1])
            /\ n.digest = concat_digest(<<G1_to_digest(n.acc_value), n.pre_skipped_hash>>)

\* a skip-list node whose window has a stored block before it
C12_Witness ==
    \E id \in DOMAIN chain.skip_list_nodes :
        /\ (chain.skip_list_nodes[id].block_id - Pow2(chain.skip_list_nodes[id].level + 2))
               \in DOMAIN chain.block_headers
        /\ chain.skip_list_nodes[id].pre_skipped_hash # ZeroDigest

\* C13: after any sequence of block builds the stored headers form a hash chain: for
\* every stored block b whose predecessor b - 1 is stored, the prev_hash of the header
\* of b is the digest of the header of b - 1.
C13_HashChain ==
    \A b \in DOMAIN chain.block_headers :
        /\ chain.block_headers[b].block_id = b
        /\ (b - 1) \in DOMAIN chain.block_headers =>
               chain.block_headers[b].prev_hash
                   = BlockHeader_to_digest(chain.block_headers[b - 1])

\* three stored blocks in a row
C13_Witness ==
    \E b \in DOMAIN chain.block_headers :
        (b - 1) \in DOMAIN chain.block_headers /\ (b - 2) \in DOMAIN chain.block_headers

\* the objects stored for block b
ObjectsOf(c, b) == {id \in DOMAIN c.objects : c.objects[id].block_id = b}

\* C14: for every block built with the intra index, of any number of objects, the
\* set_data of the root non-leaf is the union of the set_data of the objects (leaves)
\* of the block.
C14_RootIsUnion ==
    \A b \in DOMAIN chain.block_data :
        chain.block_data[b].data.kind = "Index" =>
            /\ chain.block_data[b].data.root \in DOMAIN chain.intra_index_nodes
            /\ chain.intra_index_nodes[chain.block_data[b].data.root].kind = "NonLeaf"
            /\ chain.intra_index_nodes[chain.block_data[b].data.root].block_id = b
            /\ chain.intra_index_nodes[chain.block_data[b].data.root].set_data
                   = FromKeys(UNION {DOMAIN chain.objects[id].set_data : id \in ObjectsOf(chain, b)})

\* a second block of three objects whose sets differ from one another
C14_Witness ==
    /\ 2 \in DOMAIN chain.block_data
    /\ chain.block_data[2].data.kind = "Index"
    /\ Cardinality(ObjectsOf(chain, 2)) = 3
    /\ \A i, j \in ObjectsOf(chain, 2) :
           i # j => chain.objects[i].set_data # chain.objects[j].set_data

\* C15: in every result of historical_query the nodes of res_vo.vo_t are in strictly
\* ascending order of block_id, from the start block of the query to its end block.
C15_AscendingBlocks ==
    (HasResult /\ Honest) =>
        /\ res.vo_t # <<>>
        /\ res.vo_t[1].block_id = res.query.start_block
        /\ res.vo_t[Len(res.vo_t)].block_id = res.query.end_block
        /\ \A k \in 1..(Len(res.vo_t) - 1) : res.vo_t[k].block_id < res.vo_t[k + 1].block_id

\* a result of a jump over four blocks followed by the node of the block it lands on
C15_Witness ==
    /\ HasResult /\ Honest /\ HasJump(res)
    /\ Len(res.vo_t) >= 2
    /\ res.vo_t[1].block_id + 4 = res.vo_t[2].block_id

\* every record of the map old is in the map new, unchanged, and every key that new adds
\* is greater than every key of old
OnlyAppended(old, new) ==
    /\ \A id \in DOMAIN old : id \in DOMAIN new /\ new[id] = old[id]
    /\ \A id \in (DOMAIN new) \ (DOMAIN old) : \A o \in DOMAIN old : id > o

\* C16: across any sequence of build_block calls each new object, intra-index node and
\* skip-list node gets an id strictly greater than every id assigned before in its
\* category, so that no persisted record is overwritten by a later write.
C16_IdsNeverReused ==
    [][/\ OnlyAppended(chain.objects, chain'.objects)
       /\ OnlyAppended(chain.intra_index_nodes, chain'.intra_index_nodes)
       /\ OnlyAppended(chain.skip_list_nodes, chain'.skip_list_nodes)]_vars

\* the j-th set of the expression of fn_in and the set of fn_in share no element
NoCommon(j) == (DOMAIN fn_in.exp[j]) \cap (DOMAIN fn_in.set) = {}

\* C17: for every expression E_1..E_m and every set S, mismatch_idx(S) is the smallest
\* index j such that E_j and S share no element, and is None exactly when S intersects
\* every E_j; is_match(S) is true exactly when mismatch_idx(S) is None.
C17_FirstMismatch ==
    "idx" \in DOMAIN fn_out =>
        /\ (fn_out.idx = None) <=> (\A j \in 1..Len(fn_in.exp) : ~NoCommon(j))
        /\ fn_out.idx # None =>
               /\ (fn_out.idx + 1) \in 1..Len(fn_in.exp)
               /\ NoCommon(fn_out.idx + 1)
               /\ \A j \in 1..fn_out.idx : ~NoCommon(j)
        /\ fn_out.match <=> (fn_out.idx = None)

\* an expression of two sets whose first meets S and whose second does not
C17_Witness ==
    /\ "idx" \in DOMAIN fn_out
    /\ fn_out.idx = 1
    /\ Len(fn_in.exp) = 2
    /\ fn_in.set # EmptySet
    /\ ~fn_out.match

\* the multisets A and B have no element in common
Disjoint(A, B) == \A e \in DOMAIN A : e \notin DOMAIN B

C20_CombinedProofVerifies ==
    ("op" \in DOMAIN fn_out /\ fn_out.op = "sum"
        /\ Disjoint(fn_in.a, fn_in.b) /\ Disjoint(fn_in.a, fn_in.c)) =>
        fn_out.ok /\ fn_out.verified

\* a combined proof for A against B and C, where B and C overlap and differ
C20_Witness ==
    /\ "op" \in DOMAIN fn_out
    /\ fn_out.op = "sum"
    /\ fn_in.a # EmptySet
    /\ (DOMAIN fn_in.b) \cap (DOMAIN fn_in.c) # {}
    /\ fn_in.b # fn_in.c
    /\ fn_out.verified

\* C21: for every multiset S and both accumulator types, the accumulator computed with
\* the secret key equals the one computed from the public parameters, in G1 and in G2,
\* for every polynomial the set expands to (including one with a zero coefficient).
C21_SkPkAgree ==
    ("op" \in DOMAIN fn_out /\ fn_out.op = "acc") =>
        fn_out.g1_sk = fn_out.g1 /\ fn_out.g2_sk = fn_out.g2

\* the polynomial of the set of fn_in has no zero coefficient
NoZeroCoeff == \A i \in DOMAIN expand_to_poly(fn_in.set) : expand_to_poly(fn_in.set)[i] # 0

\* the two paths agree under ACC2, and under ACC1 when no coefficient is zero
C21_AgreeWithoutZeroCoeff ==
    ("op" \in DOMAIN fn_out /\ fn_out.op = "acc" /\ (fn_in.t = "ACC2" \/ NoZeroCoeff)) =>
        fn_out.g1_sk = fn_out.g1 /\ fn_out.g2_sk = fn_out.g2

\* the digest of fn_in reduced modulo the field modulus, as limbs
ReducedDigest == into_repr(from_be_bytes_mod_order(fn_in))

\* C22: for every digest d, digest_to_field(d) equals the 32 bytes of d read as a
\* big-endian integer, reduced modulo the field modulus, with only the top 8 bits of the
\* most-significant 64-bit limb cleared (the low 248 bits are preserved), so the result
\* fits in at most 248 bits.
C22_Low248BitsKept ==
    ("op" \in DOMAIN fn_out /\ fn_out.op = "field") =>
        /\ fn_out.num # NoValue
        /\ \A k \in 1..3 : fn_out.num[k] = ReducedDigest[k]
        /\ fn_out.num[4] = [ReducedDigest[4] EXCEPT ![1] = 0]

\* what the conversion does: the low 192 bits are kept, the most-significant limb is 0
C22_Low192BitsKept ==
    ("op" \in DOMAIN fn_out /\ fn_out.op = "field") =>
        /\ fn_out.num # NoValue
        /\ \A k \in 1..3 : fn_out.num[k] = ReducedDigest[k]
        /\ fn_out.num[4] = ZeroLimb

\* the levels at which the SkipListRoot n of a result holds a JumpNode
JumpLevels(n) == {l \in 0..(Len(n.sub_nodes) - 1) : n.sub_nodes[l + 1].kind = "Jump"}

\* the stored objects of the blocks lo..hi whose set matches the query of r
MatchingIn(r, c, lo, hi) ==
    {id \in DOMAIN c.objects :
        /\ c.objects[id].block_id \in lo..hi
        /\ is_match(QueryExpOf(r), c.objects[id].set_data)}

\* C23: whenever historical_query takes a skip-list jump of level l from block b, every
\* block passed over by the jump lies within start_block..=b and contains no object
\* matching the query, and processing resumes at block b - 2^(l+2), which is not below
\* start_block.
C23_JumpIsSound ==
    (HasResult /\ Honest) =>
        \A i \in 1..Len(res.vo_t) :
            res.vo_t[i].kind = "SkipListRoot" =>
                \A l \in JumpLevels(res.vo_t[i]) :
                    /\ res.vo_t[i].block_id - Pow2(l + 2) >= res.query.start_block
                    /\ MatchingIn(res, chain, res.vo_t[i].block_id - Pow2(l + 2) + 1,
                                  res.vo_t[i].block_id) = {}
                    /\ i > 1
                    /\ res.vo_t[i - 1].block_id = res.vo_t[i].block_id - Pow2(l + 2)

\* a jump in a result that also returns an object of the block the jump lands on
C23_Witness ==
    /\ HasResult /\ Honest /\ HasJump(res)
    /\ res.res_objs # <<>>
    /\ \E o \in DOMAIN chain.objects : chain.objects[o].block_id = res.query.end_block

\* some set of the expression exp has no element in common with set
Mismatches(exp, set) == \E j \in 1..Len(exp) : (DOMAIN exp[j]) \cap (DOMAIN set) = {}

\* the levels of block b at which the query of r may jump: the window stays at or above
\* start_block and the aggregated set of the stored node mismatches the query
JumpableLevels(r, c, b) ==
    {l \in 0..(Len(c.block_data[b].skip_list_ids) - 1) :
        /\ r.query.start_block + Pow2(l + 2) <= b
        /\ Mismatches(QueryExpOf(r), c.skip_list_nodes[c.block_data[b].skip_list_ids[l + 1]].set_data)}

\* C24: every SkipListRoot emitted by historical_query carries one sub-node per skip-list
\* level of its block, in ascending level order, of which exactly one is a JumpNode; that
\* JumpNode is at the highest level l satisfying start_block + 2^(l+2) <= current block
\* whose aggregated set mismatches the query, and all other levels are NoJumpNodes.
C24_OneJumpAtHighestLevel ==
    (HasResult /\ Honest) =>
        \A i \in 1..Len(res.vo_t) :
            res.vo_t[i].kind = "SkipListRoot" =>
                LET n == res.vo_t[i]
                    ids == chain.block_data[n.block_id].skip_list_ids
                IN  /\ Len(n.sub_nodes) = Len(ids)
                    /\ \A k \in 1..Len(ids) :
                           /\ n.sub_nodes[k].id = ids[k]
                           /\ n.sub_nodes[k].kind \in {"Jump", "NoJump"}
                    /\ JumpableLevels(res, chain, n.block_id) # {}
                    /\ JumpLevels(n) = {SetMax(JumpableLevels(res, chain, n.block_id))}

\* a SkipListRoot of two levels that jumps at level 1
C24_Witness ==
    /\ HasResult /\ Honest
    /\ \E i \in 1..Len(res.vo_t) :
           /\ res.vo_t[i].kind = "SkipListRoot"
           /\ Len(res.vo_t[i].sub_nodes) = 2
           /\ res.vo_t[i].sub_nodes[2].kind = "Jump"
           /\ res.vo_t[i].sub_nodes[1].kind = "NoJump"

\* a SkipListRoot of two levels that jumps at level 0 although the window of level 1
\* stays at or above start_block
C24_LowJump ==
    /\ HasResult /\ Honest
    /\ \E i \in 1..Len(res.vo_t) :
           /\ res.vo_t[i].kind = "SkipListRoot"
           /\ Len(res.vo_t[i].sub_nodes) = 2
           /\ res.vo_t[i].sub_nodes[1].kind = "Jump"
           /\ res.query.start_block + 8 <= res.vo_t[i].block_id

\* the query set that the proof index names in the result r is a set of the query of r
\* and has no element in common with set
ProvenDisjoint(r, proof_idx, set) ==
    /\ proof_idx[1] + 1 \in DOMAIN r.vo_acc.query_exp_sets
    /\ \E j \in 1..Len(QueryExpOf(r)) : QueryExpOf(r)[j] = r.vo_acc.query_exp_sets[proof_idx[1] + 1]
    /\ (DOMAIN r.vo_acc.query_exp_sets[proof_idx[1] + 1]) \cap (DOMAIN set) = {}

\* the node n of a block of the result r was treated as its stored set requires
NodeTreatedRight(r, c, n) ==
    CASE n.kind = "NoMatch" -> ProvenDisjoint(r, n.proof_idx, c.objects[n.obj_id].set_data)
      [] n.kind = "Match" -> ~Mismatches(QueryExpOf(r), c.objects[n.obj_id].set_data)
      [] n.kind \in {"NoMatchIntraNonLeaf", "NoMatchIntraLeaf"} ->
            ProvenDisjoint(r, n.proof_idx, c.intra_index_nodes[n.id].set_data)
      [] n.kind \in {"IntraNonLeaf", "MatchIntraLeaf"} ->
            ~Mismatches(QueryExpOf(r), c.intra_index_nodes[n.id].set_data)
      [] n.kind = "Jump" -> ProvenDisjoint(r, n.proof_idx, c.skip_list_nodes[n.id].set_data)
      [] n.kind = "NoJump" -> TRUE
      [] OTHER -> FALSE

\* the nodes below the entry e of vo_t
NodesOf(e) ==
    IF e.kind = "BlkNode" THEN {e.tree[path] : path \in DOMAIN e.tree}
    ELSE {e.sub_nodes[k] : k \in 1..Len(e.sub_nodes)}

C25_FlatWitness ==
    /\ HasResult /\ Honest
    /\ \E i \in 1..Len(res.vo_t) :
           /\ res.vo_t[i].kind = "FlatBlkNode"
           /\ \E n \in NodesOf(res.vo_t[i]) : n.kind = "NoMatch"
           /\ \E n \in NodesOf(res.vo_t[i]) : n.kind = "Match"

\* C26: after any sequence of successful add_proof calls, query_exp_sets contains no
\* duplicate set and, for each query-set index: under ACC1 the proof list and the
\* accumulator list have equal length and proof k is the proof for accumulator k; under
\* ACC2 the proof list holds exactly one proof, which verifies against the sum of all
\* accumulators recorded for that index; and the index returned by each call addresses the
\* accumulator that call appended.
C26_ProofTableConsistent ==
    ("va" \in DOMAIN fn_out /\ ~fn_out.failed) =>
        LET va == fn_out.va
        IN  /\ \A j, k \in 1..Len(va.query_exp_sets) :
                   va.query_exp_sets[j] = va.query_exp_sets[k] => j = k
            /\ DOMAIN va.proofs = DOMAIN va.object_accs
            /\ \A i \in DOMAIN va.proofs :
                   /\ i + 1 \in 1..Len(va.query_exp_sets)
                   /\ fn_in = "ACC1" =>
                          /\ Len(va.proofs[i]) = Len(va.object_accs[i])
                          /\ \A k \in 1..Len(va.proofs[i]) :
                                 Acc1Proof_verify(va.proofs[i][k], va.object_accs[i][k],
                                     query_acc(va.query_exp_sets[i + 1], "ACC1"))
                   /\ fn_in = "ACC2" =>
                          /\ Len(va.proofs[i]) = 1
                          /\ Acc2Proof_verify(va.proofs[i][1],
                                 G1Sum(va.object_accs[i], Len(va.object_accs[i])),
                                 query_acc(va.query_exp_sets[i + 1], "ACC2"))
            /\ \A c \in 1..Len(fn_out.calls) :
                   /\ has_object_acc(va, fn_out.calls[c].idx)
                   /\ get_object_acc(va, fn_out.calls[c].idx) = fn_out.calls[c].acc
                   /\ \A d \in 1..Len(fn_out.calls) :
                          fn_out.calls[c].idx = fn_out.calls[d].idx => c = d

\* three calls under ACC2 of which two name the same query set with different object sets
C26_Witness ==
    /\ "va" \in DOMAIN fn_out /\ ~fn_out.failed
    /\ fn_in = "ACC2"
    /\ Len(fn_out.calls) = 3
    /\ Len(fn_out.va.query_exp_sets) = 2
    /\ \E i \in DOMAIN fn_out.va.object_accs :
           /\ Len(fn_out.va.object_accs[i]) = 2
           /\ fn_out.va.object_accs[i][1] # fn_out.va.object_accs[i][2]

\* the proof_idx values that the hash check of r reads an accumulator through
ProofIdxRead(r) ==
    UNION {{n.proof_idx : n \in {m \in NodesOf(r.vo_t[i]) :
                                    m.kind \in {"NoMatch", "NoMatchIntraNonLeaf",
                                                "NoMatchIntraLeaf", "Jump"}}} :
              i \in 1..Len(r.vo_t)}

\* the accumulator at proof_idx is covered by a proof that verifies against a set of the query
ProvenEntry(r, proof_idx) ==
    /\ has_object_acc(r.vo_acc, proof_idx)
    /\ proof_idx[1] \in DOMAIN r.vo_acc.proofs
    /\ proof_idx[1] + 1 \in 1..Len(r.vo_acc.query_exp_sets)
    /\ \E j \in 1..Len(QueryExpOf(r)) :
           QueryExpOf(r)[j] = r.vo_acc.query_exp_sets[proof_idx[1] + 1]
    /\ r.ap = "ACC1" =>
           /\ proof_idx[2] + 1 \in 1..Len(r.vo_acc.proofs[proof_idx[1]])
           /\ Acc1Proof_verify(r.vo_acc.proofs[proof_idx[1]][proof_idx[2] + 1],
                  get_object_acc(r.vo_acc, proof_idx),
                  query_acc(r.vo_acc.query_exp_sets[proof_idx[1] + 1], "ACC1"))
    /\ r.ap = "ACC2" =>
           /\ r.vo_acc.proofs[proof_idx[1]] # <<>>
           /\ Acc2Proof_verify(r.vo_acc.proofs[proof_idx[1]][1],
                  G1Sum(r.vo_acc.object_accs[proof_idx[1]],
                        Len(r.vo_acc.object_accs[proof_idx[1]])),
                  query_acc(r.vo_acc.query_exp_sets[proof_idx[1] + 1], "ACC2"))

\* C27: in any verification that returns Ok, every accumulator value that the hash-chain
\* check reads through a proof_idx (for no-match nodes and jump nodes) is an entry that the
\* accumulator check has verified with a disjointness proof against one of the query's
\* sets; no unproven accumulator entry can contribute to an accepted hash.
C27_OnlyProvenAccsRead ==
    (Verified /\ verdict.tag = "Ok") =>
        \A proof_idx \in ProofIdxRead(res) : ProvenEntry(res, proof_idx)

\* the same holds of every result that historical_query itself produced
C27_HonestAccsProven ==
    (Verified /\ verdict.tag = "Ok" /\ Honest) =>
        \A proof_idx \in ProofIdxRead(res) : ProvenEntry(res, proof_idx)

\* an accepted result in which an accumulator without a proof was read
C27_UnprovenAccepted ==
    /\ Verified /\ verdict.tag = "Ok"
    /\ adv = <<"UnprovenAcc">>
    /\ \E proof_idx \in ProofIdxRead(res) : proof_idx[1] \notin DOMAIN res.vo_acc.proofs

\* the round of the build in which the non-leaf id was made: 0 for a parent of leaves
RECURSIVE RoundOf(_, _)
RoundOf(nodes, id) ==
    IF nodes[id].kind = "Leaf" THEN -1
    ELSE IF nodes[id].child_ids = <<>> THEN 0
    ELSE 1 + SetMax({RoundOf(nodes, nodes[id].child_ids[k]) : k \in 1..Len(nodes[id].child_ids)})

\* the ids of the list that the left node of the non-leaf n was picked from: the nodes of
\* the previous rounds of its block that no earlier non-leaf has taken; the list holds
\* them in ascending order of id
Candidates(nodes, n) ==
    {id \in DOMAIN nodes :
        /\ nodes[id].block_id = n.block_id
        /\ id < n.id
        /\ RoundOf(nodes, id) < RoundOf(nodes, n.id)
        /\ RoundOf(nodes, n.id) = 0 <=> nodes[id].kind = "Leaf"
        /\ \A m \in DOMAIN nodes :
               (nodes[m].kind = "NonLeaf" /\ m < n.id) =>
                   \A k \in 1..Len(nodes[m].child_ids) : nodes[m].child_ids[k] # id}

\* the candidates of the largest set_data size
Largest(nodes, n) ==
    {id \in Candidates(nodes, n) :
        \A other \in Candidates(nodes, n) :
            SetLen(nodes[other].set_data) <= SetLen(nodes[id].set_data)}

\* the non-leaves of the store that a clustering step made
StepNodes(nodes) == {id \in DOMAIN nodes : nodes[id].kind = "NonLeaf" /\ nodes[id].child_ids # <<>>}

\* C28 as claimed: in each clustering step of the intra-index build, the left node L chosen
\* is the node with the largest set_data size and, when several nodes tie for the largest
\* size, the first of them in the current list order.
C28_LeftIsFirstLargest ==
    \A id \in StepNodes(chain.intra_index_nodes) :
        /\ Largest(chain.intra_index_nodes, chain.intra_index_nodes[id]) # {}
        /\ chain.intra_index_nodes[id].child_ids[1]
               = SetMin(Largest(chain.intra_index_nodes, chain.intra_index_nodes[id]))

\* C28 (amended): in each clustering step of the intra-index build, the left node L chosen
\* is the node with the largest set_data size and, when several nodes tie for the largest
\* size, the last of them in the current list order.
C28_LeftIsLastLargest ==
    \A id \in StepNodes(chain.intra_index_nodes) :
        /\ Largest(chain.intra_index_nodes, chain.intra_index_nodes[id]) # {}
        /\ chain.intra_index_nodes[id].child_ids[1]
               = SetMax(Largest(chain.intra_index_nodes, chain.intra_index_nodes[id]))

\* a block in which a step on the leaves and a step on the non-leaves each met a tie
C28_Witness ==
    /\ \E id \in StepNodes(chain.intra_index_nodes) :
           /\ RoundOf(chain.intra_index_nodes, id) = 0
           /\ Cardinality(Largest(chain.intra_index_nodes, chain.intra_index_nodes[id])) >= 2
           /\ Cardinality(Candidates(chain.intra_index_nodes, chain.intra_index_nodes[id])) >= 3
    /\ \E id \in StepNodes(chain.intra_index_nodes) :
           /\ RoundOf(chain.intra_index_nodes, id) >= 1
           /\ Cardinality(Largest(chain.intra_index_nodes, chain.intra_index_nodes[id])) >= 2

\* every block of the range of the query of r is stored on the chain c
RangeStored(r, c) ==
    \A b \in r.query.start_block..r.query.end_block :
        b \in DOMAIN c.block_data /\ b \in DOMAIN c.block_headers

\* C29: for every query with start_block <= end_block, including start_block = 0,
\* historical_query terminates and returns a result or an error: its descending block
\* counter never wraps below zero or panics on underflow, and each loop iteration strictly
\* decreases the counter.  A call that panicked has status "Panic"; a counter that wrapped
\* shows as an error although every block of the range can be read.
C29_CounterNeverUnderflows ==
    (res # NoRes /\ Honest /\ res.query.start_block <= res.query.end_block) =>
        /\ res.status # "Panic"
        /\ (res.status = "Err") => ~RangeStored(res, chain)

\* from start_block >= 1 the counter stops above zero and the query returns its result
C29_NoUnderflowAboveZero ==
    (res # NoRes /\ Honest /\ res.query.start_block >= 1 /\ RangeStored(res, chain)) =>
        res.status = "Ok"

\* a query from block 0 over stored blocks that panicked
C29_PanicAtZero ==
    /\ res # NoRes /\ Honest
    /\ res.query.start_block = 0
    /\ RangeStored(res, chain)
    /\ res.status = "Panic"

\* the records of the store c that belong to a block without a header
Orphans(c) ==
    [objects |-> {id \in DOMAIN c.objects : c.objects[id].block_id \notin DOMAIN c.block_headers},
     intra_index_nodes |-> {id \in DOMAIN c.intra_index_nodes :
                               c.intra_index_nodes[id].block_id \notin DOMAIN c.block_headers},
     skip_list_nodes |-> {id \in DOMAIN c.skip_list_nodes :
                             c.skip_list_nodes[id].block_id \notin DOMAIN c.block_headers},
     block_data |-> (DOMAIN c.block_data) \ (DOMAIN c.block_headers)]

NoOrphans == [objects |-> {}, intra_index_nodes |-> {}, skip_list_nodes |-> {}, block_data |-> {}]

\* C30: if build_block returns an error, the store holds no record of the block being
\* built (no object, intra-index node, skip-list node, block header or block data written
\* by that call): a failed build leaves the chain exactly as it was before the call.
C30_FailedBuildLeavesNoRecord == build_ret = "Err" => Orphans(chain) = NoOrphans

\* a build that returns Ok leaves no record without its header
C30_BuiltBlocksComplete == build_ret = "Ok" => Orphans(chain) = NoOrphans

\* a failed build after which objects and intra-index nodes of the block are stored
C30_OrphansAfterError ==
    /\ build_ret = "Err"
    /\ Orphans(chain).objects # {}
    /\ Orphans(chain).intra_index_nodes # {}

====
